---- MODULE Spec2Model ----
(***************************************************************************)
(* mgit: the status run of main.py.  RepoScanner builds one GitRepo per    *)
(* working tree (loading and re-saving the GitCache), then                 *)
(* ParallelRepoProcessor.process_all runs the fast and the slow phase on   *)
(* two thread pools and calls the display callback after each completion.  *)
(***************************************************************************)
EXTENDS Integers, Sequences, FiniteSets, TLC

(***************************************************************************)
(* Bounds of the model.                                                    *)
(***************************************************************************)
\* repositories of the detailed run (Spec)
NumRepos == 2
\* data-source calls that may raise in one run of Spec
MaxFaults == 1
\* repositories of the pool-size runs (SpecPool), where no call raises
PoolRepos == 5
\* repository paths of the cache runs (SpecCache)
CachePaths == 2
\* modification times of the git metadata files range over 1..MaxTime
MaxTime == 3
\* calls of the display in the display runs (SpecDisplay)
MaxFrames == 11
\* results in a result map of the display runs
MaxRows == 2
\* commit counts git rev-list reports in the data-source runs (SpecSource)
MaxCount == 2
\* repositories of the runs over alias files (SpecOrder)
OrderRepos == 3
\* calls that can raise in a run in which any call can (SpecSettle): as many as
\* one repository has
SettleFaults == 6

(***************************************************************************)
(* Program constants.                                                      *)
(***************************************************************************)
\* ParallelRepoProcessor.__init__(repos, max_workers=8)
DefaultMaxWorkers == 8
\* ThreadPoolExecutor(max_workers=min(4, self.max_workers))
SlowWorkerCap == 4

(***************************************************************************)
(* Python values: Optional, dict.                                          *)
(***************************************************************************)
None == <<>>
Some(v) == <<v>>
IsSet(o) == o # None

EmptyDict == [k \in {} |-> 0]
Put(d, k, v) == [x \in DOMAIN d \cup {k} |-> IF x = k THEN v ELSE d[x]]
Restrict(d, keys) == [x \in DOMAIN d \cap keys |-> d[x]]

\* d.get(k, default)
DictGet(d, k, default) == IF k \in DOMAIN d THEN d[k] ELSE default

\* a JSON value that is not an object (a number, a string, a list, null),
\* written as a map with the one key "nondict" so that isinstance(v, dict)
\* can be asked of it
NonDict(kind) == [nondict |-> kind]

\* isinstance(v, dict)
IsDict(v) == "nondict" \notin DOMAIN v

\* stands for a JSON value that is not a number where a number is expected
NonNumber == -1

\* isinstance(v, (int, float))
IsNumber(v) == v # NonNumber

Min(a, b) == IF a <= b THEN a ELSE b
SetMax(S) == CHOOSE x \in S : \A y \in S : y <= x

VARIABLES
    repos,            \* the working trees found by the scanner (processor.repos)
    max_workers,      \* ParallelRepoProcessor.max_workers
    display_callback, \* the display_callback given to process_all: main's
                      \* "update_display", or "record" for one that only records
    stalled,          \* the data-source call that never returns in this run:
                      \* <<repository, call>>, or NoStall
    faults_left,      \* how many more data-source calls may raise in this run
    git_files,        \* per repository: mtimes of .git/index, .git/HEAD, .git/refs/**
    cache_data,       \* GitCache._cache_data: repo key -> [mtime, data]
    cache_file,       \* the persisted .mgit/cache.json: the JSON object it holds
    cache_file_state, \* .mgit/cache.json: "object" when it holds a JSON object,
                      \* else why it does not
    cached_data,      \* GitRepo._cached_data, per repository
    pc,               \* position of the main thread
    cur,              \* the future the main thread is handling
    fut,              \* per repository: the future of the current phase
    results,          \* ParallelRepoProcessor.results: name -> RepoResult
    completed_count,  \* ParallelRepoProcessor.completed_count
    display_lock,     \* holder of ParallelRepoProcessor.display_lock
    calls,            \* data source, instrumented: outcome of each call so far
    cache_writes,     \* status run, instrumented: cache entries the scanner wrote
    callbacks,        \* display callback, instrumented: invocations per phase tag
    frame,            \* the last invocation of the display callback
    display,          \* the ProgressiveDisplay: header_printed, spinner_index
    term,             \* the terminal: what the last call of the display printed
    ret               \* cache operations: the last operation and what it returned

confVars == <<repos, max_workers, display_callback, stalled>>
cacheVars == <<git_files, cache_data, cache_file, cache_file_state, cache_writes, ret>>
procVars == <<pc, cur, fut, results, completed_count, display_lock, callbacks, frame,
              display, term>>
vars == <<repos, max_workers, display_callback, stalled, faults_left, git_files, cache_data, cache_file,
          cache_file_state, cached_data, pc, cur, fut, results, completed_count, display_lock,
          calls, cache_writes, callbacks, frame, display, term, ret>>

(***************************************************************************)
(* GitCache (git_cache.py).                                                *)
(***************************************************************************)
\* _get_git_mtime without its check of .git/HEAD
GitTimesNoHead(files) ==
    (IF IsSet(files.index) THEN {files.index[1]} ELSE {}) \cup files.refs

\* the mtimes _get_git_mtime collects: index, HEAD, every file under refs
GitTimes(files) ==
    (IF IsSet(files.index) THEN {files.index[1]} ELSE {})
    \cup (IF IsSet(files.HEAD) THEN {files.HEAD[1]} ELSE {})
    \cup files.refs

_get_git_mtime(files) ==
    IF GitTimes(files) # {} THEN SetMax(GitTimes(files)) ELSE 0

\* the states .mgit/cache.json can be in when it does not hold a JSON object:
\* no such file, open() fails, bytes that are not text, text that is not
\* JSON, JSON that is not an object
BadFileStates == {"missing", "unreadable", "not_text", "not_json", "not_object"}

\* _load_cache raises: open(.., "r") decodes the bytes, and UnicodeDecodeError is
\* neither json.JSONDecodeError nor IOError
_load_cache_raises(state) == state = "not_text"

\* _load_cache where it returns
_load_cache(state, content) == IF state = "object" THEN content ELSE EmptyDict

\* the outcomes of the write in _save_cache: written, open() raises IOError,
\* or the write raises IOError after open() has truncated the file
WriteOutcomes ==
    IF faults_left > 0 THEN {"ok", "open_fails", "write_fails"} ELSE {"ok"}

\* .mgit/cache.json after _save_cache of cd with outcome o
_save_cache(o, cd, state, content) ==
    CASE o = "ok" -> [state |-> "object", content |-> cd]
      [] o = "open_fails" -> [state |-> state, content |-> content]
      [] o = "write_fails" -> [state |-> "not_json", content |-> EmptyDict]

\* is_cached_valid raises AttributeError: self._cache_data[repo_key].get on an
\* entry that is not a dict
is_cached_valid_raises(cd, key) == key \in DOMAIN cd /\ ~IsDict(cd[key])

\* is_cached_valid asking for a stored mtime beyond the current one
is_cached_valid_strict(cd, files, key) ==
    IF key \notin DOMAIN cd THEN FALSE
    ELSE LET cached_mtime == DictGet(cd[key], "mtime", 0)
         IN  IF IsNumber(cached_mtime)
             THEN cached_mtime > _get_git_mtime(files)
             ELSE FALSE

\* is_cached_valid where it returns
is_cached_valid(cd, files, key) ==
    IF key \notin DOMAIN cd THEN FALSE
    ELSE LET cached_mtime == DictGet(cd[key], "mtime", 0)
         IN  IF IsNumber(cached_mtime)
             THEN cached_mtime >= _get_git_mtime(files)
             ELSE FALSE

get_cached_data(cd, key) ==
    LET repo_data == DictGet(cd, key, EmptyDict)
    IN  IF IsDict(repo_data)
        THEN LET data == DictGet(repo_data, "data", EmptyDict)
             IN  IF IsDict(data) THEN data ELSE EmptyDict
        ELSE EmptyDict

\* set_cache_data updating the fields of the entry's data instead of replacing it
set_cache_data_merge(cd, files, key, data) ==
    Put(cd, key,
        [mtime |-> _get_git_mtime(files),
         data |-> [f \in DOMAIN get_cached_data(cd, key) \cup DOMAIN data |->
                     IF f \in DOMAIN data THEN data[f]
                     ELSE get_cached_data(cd, key)[f]]])

\* set_cache_data starting from an empty map: the entries of the other paths go
set_cache_data_alone(cd, files, key, data) ==
    Put(EmptyDict, key, [mtime |-> _get_git_mtime(files), data |-> data])

set_cache_data(cd, files, key, data) ==
    Put(cd, key, [mtime |-> _get_git_mtime(files), data |-> data])

(***************************************************************************)
(* The data source: what git and gh answer for each working tree.          *)
(* Repository 1 is "alpha" and repository 2 "beta" of the scenario; odd    *)
(* repositories have a remote URL and an open pull request.                *)
(***************************************************************************)
_get_unstaged_changes(r) == IF r % 2 = 1 THEN 0 ELSE 3

_get_current_branch(r) == IF r % 2 = 1 THEN "main" ELSE "feature"

_check_pr_exists(r) ==
    IF r % 2 = 1
    THEN [exists |-> TRUE, number |-> Some(12), url |-> Some("pr-url")]
    ELSE [exists |-> FALSE, number |-> None, url |-> None]

_get_sync_status(r) ==
    IF r % 2 = 1
    THEN [status |-> "synced", ahead |-> 0, behind |-> 0]
    ELSE [status |-> "behind", ahead |-> 0, behind |-> 2]

_check_remote_updated(r) == _get_sync_status(r).status = "synced"

\* Optional[str]: None when gh reports no URL
_get_repo_url(r) == IF r % 2 = 1 THEN Some("repo-url") ELSE None

\* no call of the run blocks for ever
NoStall == <<0, "none">>

\* the call of a repository comes to its end
Ends(r, call) == stalled # <<r, call>>

\* the outcomes a call can have now: it returns, or it raises
Outcomes == IF faults_left > 0 THEN {"ok", "raise"} ELSE {"ok"}

Spend(o) == IF o = "raise" THEN faults_left - 1 ELSE faults_left

\* str(e) of the exception a failed call raises
ErrMsg == "failed"

(***************************************************************************)
(* GitRepo (git_utils.py) and RepoScanner (repo_scanner.py).               *)
(***************************************************************************)
real_name(r) == r

display_name(r) == r

CacheFields == {"unstaged_changes", "current_branch", "pr_info",
                "is_remote_updated", "sync_status", "repo_url"}

\* GitRepo.__init__ -> _load_cached_data
_load_cached_data(cd, files, r) ==
    IF is_cached_valid(cd, files, r) THEN get_cached_data(cd, r) ELSE EmptyDict

\* the data _save_to_cache collects from _cached_data
SaveData(own) == Restrict(own, CacheFields)

\* _save_to_cache writes only when it has some data
Saves(own) == DOMAIN SaveData(own) # {}

\* the for loop of scan_current_directory over _save_to_cache, repository by
\* repository; S is the set still to save
RECURSIVE SaveAll(_, _, _, _)
SaveAll(cd, files, own, S) ==
    IF S = {} THEN cd
    ELSE LET r == CHOOSE x \in S : \A y \in S : x <= y
             cd1 == IF Saves(own[r])
                    THEN set_cache_data(cd, files[r], r, SaveData(own[r]))
                    ELSE cd
         IN  SaveAll(cd1, files, own, S \ {r})

\* the current_branch property: the cached value, else a query that is cached
current_branch_cached(own, r) ==
    IF "current_branch" \in DOMAIN own THEN own
    ELSE Put(own, "current_branch", _get_current_branch(r))

(***************************************************************************)
(* RepoResult and ParallelRepoProcessor (parallel_processor.py).           *)
(***************************************************************************)
RepoResult(name, dname) ==
    [name |-> name, display_name |-> dname,
     unstaged_changes |-> None, current_branch |-> None, pr_info |-> None,
     is_remote_updated |-> None, sync_status |-> None, repo_url |-> None,
     errors |-> EmptyDict]

\* bool(self.pr_info and self.pr_info.get("exists", False))
has_pr(res) == IsSet(res.pr_info) /\ DictGet(res.pr_info[1], "exists", FALSE)

FastCalls == {"unstaged", "branch"}
SlowCalls == {"pr", "remote", "sync", "url"}
AllCalls == FastCalls \cup SlowCalls

FastPoolSize == max_workers

\* the slow pool as large as the fast pool
SlowPoolUncapped == max_workers

\* a slow pool of one worker
SlowPoolSingle == Min(max_workers, max_workers - max_workers + 1)

SlowPoolSize == Min(SlowWorkerCap, max_workers)

Running(kind) == {r \in repos : fut[r].state = "running" /\ fut[r].kind = kind}

NoFuture == [state |-> "none", kind |-> "none", at |-> "none", val |-> EmptyDict]

Queued(kind) == [state |-> "queued", kind |-> kind, at |-> "none", val |-> EmptyDict]

\* the loop over as_completed left after the first completion
SomeYielded == \E r \in repos : fut[r].state = "yielded"

\* the executor left without waiting for the tasks that are running
AllStarted == \A r \in repos : fut[r].state \in {"running", "done", "yielded"}

AllYielded == \A r \in repos : fut[r].state = "yielded"

\* except Exception as e: result.errors[tag] = str(e)
SetError(res, tag) == [res EXCEPT !.errors = Put(res.errors, tag, ErrMsg)]

\* update_result without its branch for the _error keys
ApplyUpdateDropErrors(res, key, value) ==
    IF key \in {"pr_error", "remote_error", "repo_url_error"}
    THEN res
    ELSE [res EXCEPT ![key] = value]

\* the body of update_result's loop for one key of updates
ApplyUpdate(res, key, value) ==
    IF key \in {"pr_error", "remote_error", "repo_url_error"}
    THEN [res EXCEPT !.errors =
             Put(res.errors,
                 CASE key = "pr_error" -> "pr"
                   [] key = "remote_error" -> "remote"
                   [] OTHER -> "repo_url",
                 value)]
    ELSE [res EXCEPT ![key] = value]

\* update_result: for key, value in updates.items(), in insertion order
RECURSIVE ApplyAll(_, _, _)
ApplyAll(res, updates, keys) ==
    IF keys = <<>> THEN res
    ELSE IF Head(keys) \in DOMAIN updates
         THEN ApplyAll(ApplyUpdate(res, Head(keys), updates[Head(keys)]),
                       updates, Tail(keys))
         ELSE ApplyAll(res, updates, Tail(keys))

\* the order in which process_repo_slow can insert its keys
UpdateKeys == <<"pr_info", "pr_error", "is_remote_updated", "sync_status",
                "remote_error", "repo_url", "repo_url_error">>

\* update_result putting a new RepoResult with the updates in place of the old
update_result_fresh(rs, name, updates) ==
    IF name \in DOMAIN rs
    THEN [rs EXCEPT ![name] = ApplyAll(RepoResult(name, rs[name].display_name),
                                       updates, UpdateKeys)]
    ELSE rs

update_result(rs, name, updates) ==
    IF name \in DOMAIN rs
    THEN [rs EXCEPT ![name] = ApplyAll(rs[name], updates, UpdateKeys)]
    ELSE rs

(***************************************************************************)
(* ProgressiveDisplay (progressive_display.py).  A cell is its visible     *)
(* text, the URL it links to and its colour; what a call prints is the     *)
(* sequence of its terminal operations.                                    *)
(***************************************************************************)
\* self.spinner_chars: ten Braille glyphs, written here as the letters a to j
spinner_chars == <<"a", "b", "c", "d", "e", "f", "g", "h", "i", "j">>

\* the display after ProgressiveDisplay.__init__
NewDisplay == [header_printed |-> FALSE, spinner_index |-> 0, current_line |-> 0]

Plain(text) == [text |-> text, link |-> None, color |-> "none"]

\* "\033[..m" text "\033[0m"
Colored(color, text) == [text |-> text, link |-> None, color |-> color]

create_hyperlink(url, text) ==
    IF IsSet(url) /\ url[1] # "" /\ text # ""
    THEN [text |-> text, link |-> url, color |-> "none"]
    ELSE Plain(text)

\* the indicator taken from the legacy boolean whenever it is set
_get_sync_indicator_legacy_first(result) ==
    IF IsSet(result.is_remote_updated)
    THEN IF result.is_remote_updated[1]
         THEN Colored("green", "+")
         ELSE Colored("red", "x")
    ELSE IF IsSet(result.sync_status)
         THEN LET status == DictGet(result.sync_status[1], "status", "unknown")
              IN  CASE status = "synced" -> Colored("green", "+")
                    [] status = "ahead" -> Colored("yellow", "^")
                    [] status = "behind" -> Colored("red", "v")
                    [] status = "diverged" -> Colored("red", "%")
                    [] OTHER -> Colored("gray", "?")
         ELSE Colored("gray", "?")

\* the indicators: + check mark, ^ up arrow, v down arrow, % up-down arrow,
\* x cross, ? question mark
_get_sync_indicator(result) ==
    IF IsSet(result.sync_status)
    THEN LET status == DictGet(result.sync_status[1], "status", "unknown")
         IN  CASE status = "synced" -> Colored("green", "+")
               [] status = "ahead" -> Colored("yellow", "^")
               [] status = "behind" -> Colored("red", "v")
               [] status = "diverged" -> Colored("red", "%")
               [] OTHER -> Colored("gray", "?")
    ELSE IF IsSet(result.is_remote_updated)
         THEN IF result.is_remote_updated[1]
              THEN Colored("green", "+")
              ELSE Colored("red", "x")
         ELSE Colored("gray", "?")

\* len(s) of the string a cell is printed as: the hyperlink adds
\* "\033]8;;" url "\033\\" before the text and "\033]8;;\033\\" behind it (14
\* characters and the url), a colour "\033[NNm" before and "\033[0m" behind (9)
raw_len(cell) ==
    Len(cell.text)
    + (IF IsSet(cell.link) THEN 14 + Len(cell.link[1]) ELSE 0)
    + (IF cell.color # "none" THEN 9 ELSE 0)

\* visible_len(s): the length of the string after re.sub has removed the
\* hyperlink and colour sequences from it
visible_len(cell) == Len(cell.text)

\* pad_with_ansi(text, width, align): the text and the blanks put around it
pad_with_ansi(cell, width, align) ==
    LET padding == width - visible_len(cell)
    IN  IF visible_len(cell) >= width THEN [cell |-> cell, left |-> 0, right |-> 0]
        ELSE IF align = "left" THEN [cell |-> cell, left |-> 0, right |-> padding]
        ELSE IF align = "center"
             THEN [cell |-> cell, left |-> padding \div 2,
                   right |-> padding - (padding \div 2)]
             ELSE [cell |-> cell, left |-> padding, right |-> 0]

\* self.spinner_chars[self.spinner_index % len(self.spinner_chars)]
spinner_char(d) == spinner_chars[(d.spinner_index % Len(spinner_chars)) + 1]

\* the unstaged cell
UnstagedCell(result, glyph) ==
    IF IsSet(result.unstaged_changes) THEN Plain(ToString(result.unstaged_changes[1]))
    ELSE IF "unstaged" \in DOMAIN result.errors THEN Plain("Error")
    ELSE Plain(glyph)

\* the branch cell
BranchCell(result, glyph) ==
    IF IsSet(result.current_branch) THEN Plain(result.current_branch[1])
    ELSE IF "branch" \in DOMAIN result.errors THEN Plain("Error")
    ELSE Plain(glyph)

\* the pr cell linking whenever the pull request has a number
PrCellNumberOnly(result, glyph) ==
    IF IsSet(result.pr_info)
    THEN IF DictGet(result.pr_info[1], "exists", FALSE)
         THEN LET pr_number == DictGet(result.pr_info[1], "number", None)
                  pr_url == DictGet(result.pr_info[1], "url", None)
              IN  IF IsSet(pr_number) /\ pr_number[1] # 0
                  THEN create_hyperlink(pr_url, ToString(pr_number[1]))
                  ELSE Plain("Yes")
         ELSE Plain("No")
    ELSE IF "pr" \in DOMAIN result.errors THEN Plain("Error")
    ELSE Plain(glyph)

\* the pr cell
PrCell(result, glyph) ==
    IF IsSet(result.pr_info)
    THEN IF DictGet(result.pr_info[1], "exists", FALSE)
         THEN LET pr_number == DictGet(result.pr_info[1], "number", None)
                  pr_url == DictGet(result.pr_info[1], "url", None)
              IN  IF IsSet(pr_number) /\ pr_number[1] # 0
                     /\ IsSet(pr_url) /\ pr_url[1] # ""
                  THEN create_hyperlink(pr_url, ToString(pr_number[1]))
                  ELSE Plain("Yes")
         ELSE Plain("No")
    ELSE IF "pr" \in DOMAIN result.errors THEN Plain("Error")
    ELSE Plain(glyph)

\* the remote cell with the glyph in place of "Error"
RemoteCellNoError(result, glyph) ==
    IF IsSet(result.sync_status) \/ IsSet(result.is_remote_updated)
    THEN _get_sync_indicator(result)
    ELSE Plain(glyph)

\* the remote cell
RemoteCell(result, glyph) ==
    IF IsSet(result.sync_status) \/ IsSet(result.is_remote_updated)
    THEN _get_sync_indicator(result)
    ELSE IF "remote" \in DOMAIN result.errors THEN Plain("Error")
    ELSE Plain(glyph)

\* the repo name cell
NameCell(result) == create_hyperlink(result.repo_url, ToString(result.display_name))

\* rows.append((repo_name, unstaged, branch, pr_status, remote_status))
RenderRow(result, glyph) ==
    <<NameCell(result), UnstagedCell(result, glyph), BranchCell(result, glyph),
      PrCell(result, glyph), RemoteCell(result, glyph)>>

\* sorted() takes an element into its place: behind the elements that are not
\* greater (the sort is stable)
RECURSIVE Insert(_, _)
Insert(acc, x) ==
    IF acc = <<>> THEN <<x>>
    ELSE IF Head(acc).display_name <= x.display_name
         THEN <<Head(acc)>> \o Insert(Tail(acc), x)
         ELSE <<x>> \o acc

\* the values in the order they have in the dict
Unsorted(vals) == vals

\* sorted(results.values(), key=lambda r: r.display_name)
RECURSIVE sorted(_)
sorted(vals) ==
    IF vals = <<>> THEN <<>>
    ELSE Insert(sorted(SubSeq(vals, 1, Len(vals) - 1)), vals[Len(vals)])

\* results.values() of the result map of the run; the display names of a run
\* differ, so sorted() does not depend on the order taken here (SpecOrder keeps
\* the insertion order, for display names that can be equal)
RECURSIVE Values(_)
Values(rs) ==
    IF DOMAIN rs = {} THEN <<>>
    ELSE LET k == CHOOSE x \in DOMAIN rs : \A y \in DOMAIN rs : x <= y
         IN  <<rs[k]>> \o Values([x \in DOMAIN rs \ {k} |-> rs[x]])

\* max(least, max(visible_len(r[c]) for r in rows) if rows else least)
ColWidth(rows, c, least) ==
    SetMax({least} \cup {visible_len(rows[i][c]) : i \in 1..Len(rows)})

\* repo_w, unstaged_w, branch_w, pr_w, sync_w
Widths(rows) ==
    <<ColWidth(rows, 1, 30), ColWidth(rows, 2, 10), ColWidth(rows, 3, 20),
      ColWidth(rows, 4, 8), ColWidth(rows, 5, 14)>>

\* print_header printing on every call
print_header_always(d, w) ==
    [display |-> [d EXCEPT !.header_printed = TRUE, !.current_line = 3],
     out |-> <<[op |-> "clear_screen"],
               [op |-> "print_header", widths |-> w],
               [op |-> "print_separator", len |-> w[1] + w[2] + w[3] + w[4] + w[5] + 4]>>]

\* print_header: the display after it and what it printed
print_header(d, w) ==
    IF ~d.header_printed
    THEN [display |-> [d EXCEPT !.header_printed = TRUE, !.current_line = 3],
          out |-> <<[op |-> "clear_screen"],
                    [op |-> "print_header", widths |-> w],
                    [op |-> "print_separator",
                     len |-> w[1] + w[2] + w[3] + w[4] + w[5] + 4]>>]
    ELSE [display |-> d, out |-> <<>>]

\* repo_col, unstaged_col, branch_col, pr_col, remote_col of a row: line_content
\* is these five, one blank between two of them
PadRow(row, w) ==
    <<pad_with_ansi(row[1], w[1], "left"), pad_with_ansi(row[2], w[2], "left"),
      pad_with_ansi(row[3], w[3], "left"), pad_with_ansi(row[4], w[4], "left"),
      pad_with_ansi(row[5], w[5], "center")>>

\* the loop over enumerate(rows), from row i (counted from 1) on; a printed
\* row is tagged with the name of the result it renders
RECURSIVE RenderRows(_, _, _, _)
RenderRows(ordered, rows, w, i) ==
    IF i > Len(rows) THEN <<>>
    ELSE <<[op |-> "move_to_line", line |-> 3 + (i - 1)],
           [op |-> "clear_to_end_of_line"],
           [op |-> "print_row", name |-> ordered[i].name, cells |-> rows[i],
            widths |-> w, cols |-> PadRow(rows[i], w)]>>
         \o RenderRows(ordered, rows, w, i + 1)

\* the spinner left where it is
SameSpinner(d) == d

\* self.spinner_index += 1
NextSpinner(d) == [d EXCEPT !.spinner_index = @ + 1]

\* update_display(results, phase): the display after it and what it printed
update_display(d, vals, phase) ==
    LET ordered == sorted(vals)
        rows == [i \in 1..Len(ordered) |-> RenderRow(ordered[i], spinner_char(d))]
        w == Widths(rows)
        h == print_header(d, w)
    IN  [display |-> NextSpinner(h.display),
         out |-> h.out \o RenderRows(ordered, rows, w, 1)]

\* final_display(results)
final_display(d, vals) ==
    LET u == update_display(d, vals, "")
    IN  [display |-> u.display,
         out |-> u.out \o <<[op |-> "move_to_line", line |-> Len(vals) + 4],
                            [op |-> "newline"]>>]

\* how many operations of a kind a call printed
CountOps(out, kind) == Cardinality({i \in 1..Len(out) : out[i].op = kind})

\* the terminal before the first call
NoOutput == [out |-> <<>>, input |-> <<>>, calls |-> 0, final |-> FALSE,
             redraw |-> FALSE, before |-> <<>>, clears |-> 0, headers |-> 0]

\* the terminal after a call with the values vals printed out; when the call
\* before had the same values, what that call printed is kept for comparison
Emit(t, vals, out, final) ==
    [out |-> out,
     input |-> vals,
     calls |-> t.calls + 1,
     final |-> final,
     redraw |-> t.calls > 0 /\ vals = t.input,
     before |-> IF t.calls > 0 /\ vals = t.input THEN t.out ELSE <<>>,
     clears |-> t.clears + CountOps(out, "clear_screen"),
     headers |-> t.headers + CountOps(out, "print_header")]

(***************************************************************************)
(* The status run: initial states.                                         *)
(***************************************************************************)
\* .git/index was written last, at time 2
RunFiles == [index |-> Some(2), HEAD |-> Some(1), refs |-> {1}]

\* what an earlier run left in the cache for a repository
OldData == [unstaged_changes |-> 7, current_branch |-> "old"]

FreshEntry == [mtime |-> 2, data |-> OldData]

StaleEntry == [mtime |-> 1, data |-> OldData]

\* the cache files a run can start from: none, every entry fresh, or the
\* entry of repository 1 fresh and the others stale
RunCaches(R) ==
    { EmptyDict,
      [r \in R |-> FreshEntry],
      [r \in R |-> IF r = 1 THEN FreshEntry ELSE StaleEntry] }

NoFrame == [tag |-> "none", trigger |-> 0, rows |-> {}]

NoRet == [op |-> "none"]

RunStart(R, M, F, caches, cb) ==
    /\ repos = R
    /\ max_workers \in M
    /\ display_callback = cb
    /\ faults_left = F
    /\ git_files = [r \in R |-> RunFiles]
    /\ cache_data \in caches
    /\ cache_file = cache_data
    /\ cache_file_state = "object"
    /\ cached_data = [r \in R |-> EmptyDict]
    /\ pc = "scan"
    /\ cur = 0
    /\ fut = [r \in R |-> NoFuture]
    /\ results = EmptyDict
    /\ completed_count = 0
    /\ display_lock = "free"
    /\ calls = [r \in R |-> [c \in AllCalls |-> "none"]]
    /\ cache_writes = [r \in R |-> 0]
    /\ callbacks = [fast |-> 0, slow |-> 0, final |-> 0]
    /\ frame = NoFrame
    /\ display = NewDisplay
    /\ term = NoOutput
    /\ ret = NoRet

\* a run in which every call returns or raises
InitRun(R, M, F, caches, cb) == RunStart(R, M, F, caches, cb) /\ stalled = NoStall

Init == InitRun(1..NumRepos, {DefaultMaxWorkers}, MaxFaults, RunCaches(1..NumRepos),
               "record")

\* max_workers is 1 or the default
InitPool == InitRun(1..PoolRepos, {1, DefaultMaxWorkers}, 0, {EmptyDict},
                   "record")

(***************************************************************************)
(* main(): scanner.scan_current_directory, then process_all.               *)
(***************************************************************************)
\* RepoScanner.scan_current_directory: a GitRepo per working tree, each loading
\* its cached data, then _save_to_cache for each
Scan ==
    /\ pc = "scan"
    /\ LET own == [r \in repos |-> _load_cached_data(cache_data, git_files[r], r)]
           cd == SaveAll(cache_data, git_files, own, repos)
       IN  /\ cached_data' = own
           /\ cache_data' = cd
           /\ cache_file' = IF \E r \in repos : Saves(own[r]) THEN cd ELSE cache_file
           /\ cache_file_state' = IF \E r \in repos : Saves(own[r])
                                  THEN "object" ELSE cache_file_state
           /\ cache_writes' = [r \in repos |->
                                 cache_writes[r] + (IF Saves(own[r]) THEN 1 ELSE 0)]
    /\ pc' = "start"
    /\ UNCHANGED <<confVars, faults_left, git_files, cur, fut, results,
                   completed_count, display_lock, calls, callbacks, frame, display, term, ret>>

\* process_all: executor.submit(self.process_repo_fast, repo) for every repo
SubmitFast ==
    /\ pc = "start"
    /\ fut' = [r \in repos |-> Queued("fast")]
    /\ pc' = "fast_wait"
    /\ UNCHANGED <<confVars, faults_left, cacheVars, cached_data, cur, results,
                   completed_count, display_lock, calls, callbacks, frame, display, term>>

\* a worker of the fast pool takes process_repo_fast(repo) off the queue
StartFast(r) ==
    /\ fut[r].state = "queued" /\ fut[r].kind = "fast"
    /\ Cardinality(Running("fast")) < FastPoolSize
    /\ fut' = [fut EXCEPT ![r] =
                 [state |-> "running", kind |-> "fast", at |-> "unstaged",
                  val |-> RepoResult(real_name(r), display_name(r))]]
    /\ UNCHANGED <<confVars, faults_left, cacheVars, cached_data, pc, cur, results,
                   completed_count, display_lock, calls, callbacks, frame, display, term>>

\* process_repo_fast: result.unstaged_changes = repo._get_unstaged_changes()
FastUnstaged(r) ==
    /\ fut[r].state = "running" /\ fut[r].at = "unstaged"
    /\ Ends(r, "unstaged")
    /\ \E o \in Outcomes :
         /\ fut' = [fut EXCEPT ![r].at = "branch",
                               ![r].val =
                                   IF o = "ok"
                                   THEN [@ EXCEPT !.unstaged_changes =
                                             Some(_get_unstaged_changes(r))]
                                   ELSE SetError(@, "unstaged")]
         /\ calls' = [calls EXCEPT ![r]["unstaged"] = o]
         /\ faults_left' = Spend(o)
    /\ UNCHANGED <<confVars, cacheVars, cached_data, pc, cur, results,
                   completed_count, display_lock, callbacks, frame, display, term>>

\* process_repo_fast putting its RepoResult into self.results itself
FastBranchShared(r) ==
    /\ fut[r].state = "running" /\ fut[r].at = "branch"
    /\ Ends(r, "branch")
    /\ \E o \in Outcomes :
         /\ fut' = [fut EXCEPT ![r].state = "done",
                               ![r].at = "none",
                               ![r].val =
                                   IF o = "ok"
                                   THEN [@ EXCEPT !.current_branch =
                                             Some(_get_current_branch(r))]
                                   ELSE SetError(@, "branch")]
         /\ results' = Put(results, real_name(r), fut'[r].val)
         /\ calls' = [calls EXCEPT ![r]["branch"] = o]
         /\ faults_left' = Spend(o)
    /\ UNCHANGED <<confVars, cacheVars, cached_data, pc, cur,
                   completed_count, display_lock, callbacks, frame, display, term>>

\* process_repo_fast: result.current_branch = repo._get_current_branch(); return
FastBranch(r) ==
    /\ fut[r].state = "running" /\ fut[r].at = "branch"
    /\ Ends(r, "branch")
    /\ \E o \in Outcomes :
         /\ fut' = [fut EXCEPT ![r].state = "done",
                               ![r].at = "none",
                               ![r].val =
                                   IF o = "ok"
                                   THEN [@ EXCEPT !.current_branch =
                                             Some(_get_current_branch(r))]
                                   ELSE SetError(@, "branch")]
         /\ calls' = [calls EXCEPT ![r]["branch"] = o]
         /\ faults_left' = Spend(o)
    /\ UNCHANGED <<confVars, cacheVars, cached_data, pc, cur, results,
                   completed_count, display_lock, callbacks, frame, display, term>>

\* for future in as_completed(...): result = future.result();
\* with self.display_lock: self.results[result.name] = result; completed_count += 1
YieldFast(r) ==
    /\ pc = "fast_wait"
    /\ fut[r].state = "done" /\ fut[r].kind = "fast"
    /\ display_lock = "free"
    /\ display_lock' = "main"
    /\ results' = Put(results, fut[r].val.name, fut[r].val)
    /\ completed_count' = completed_count + 1
    /\ fut' = [fut EXCEPT ![r].state = "yielded"]
    /\ cur' = r
    /\ pc' = "fast_locked"
    /\ UNCHANGED <<confVars, faults_left, cacheVars, cached_data, calls,
                   callbacks, frame, display, term>>

\* the fast loop going on without releasing the lock
ReleaseFastKeeps ==
    /\ pc = "fast_locked"
    /\ pc' = "fast_cb"
    /\ UNCHANGED <<confVars, faults_left, cacheVars, cached_data, cur, fut, results,
                   completed_count, display_lock, calls, callbacks, frame, display, term>>

\* the end of the with self.display_lock block of the fast loop
ReleaseFast ==
    /\ pc = "fast_locked"
    /\ display_lock' = "free"
    /\ pc' = "fast_cb"
    /\ UNCHANGED <<confVars, faults_left, cacheVars, cached_data, cur, fut, results,
                   completed_count, calls, callbacks, frame, display, term>>

\* the call u of the display, when the display of main is attached to the run
Show(u, final) ==
    IF display_callback = "update_display"
    THEN /\ display' = u.display
         /\ term' = Emit(term, Values(results), u.out, final)
    ELSE UNCHANGED <<display, term>>

\* display_callback(self.results, "fast")
CallbackFast ==
    /\ pc = "fast_cb"
    /\ callbacks' = [callbacks EXCEPT !.fast = @ + 1]
    /\ frame' = [tag |-> "fast", trigger |-> cur, rows |-> DOMAIN results]
    /\ Show(update_display(display, Values(results), "fast"), FALSE)
    /\ pc' = "fast_wait"
    /\ UNCHANGED <<confVars, faults_left, cacheVars, cached_data, cur, fut, results,
                   completed_count, display_lock, calls>>

\* the fast executor's with block ends (every task has finished), then
\* _process_slow_operations: executor.submit(self.process_repo_slow, repo) for every repo
SubmitSlow ==
    /\ pc = "fast_wait"
    /\ AllYielded
    /\ fut' = [r \in repos |-> Queued("slow")]
    /\ pc' = "slow_wait"
    /\ UNCHANGED <<confVars, faults_left, cacheVars, cached_data, cur, results,
                   completed_count, display_lock, calls, callbacks, frame, display, term>>

\* a worker of the slow pool takes process_repo_slow(repo) off the queue
StartSlow(r) ==
    /\ fut[r].state = "queued" /\ fut[r].kind = "slow"
    /\ Cardinality(Running("slow")) < SlowPoolSize
    /\ fut' = [fut EXCEPT ![r] =
                 [state |-> "running", kind |-> "slow", at |-> "pr", val |-> EmptyDict]]
    /\ UNCHANGED <<confVars, faults_left, cacheVars, cached_data, pc, cur, results,
                   completed_count, display_lock, calls, callbacks, frame, display, term>>

\* process_repo_slow with one try block around its four calls
NextSlowCallAbort(at, o) ==
    IF o = "raise" THEN "none"
    ELSE CASE at = "pr" -> "remote"
           [] at = "remote" -> "sync"
           [] at = "sync" -> "url"
           [] OTHER -> "none"

\* where process_repo_slow goes on after the call at a position returned or raised
NextSlowCall(at, o) ==
    CASE at = "pr" -> "remote"
      [] at = "remote" -> IF o = "ok" THEN "sync" ELSE "url"
      [] at = "sync" -> "url"
      [] OTHER -> "none"

\* what process_repo_slow stores in updates for the call at a position
SlowUpdate(updates, r, at, o) ==
    CASE at = "pr" ->
           IF o = "ok" THEN Put(updates, "pr_info", Some(_check_pr_exists(r)))
           ELSE Put(updates, "pr_error", ErrMsg)
      [] at = "remote" ->
           IF o = "ok"
           THEN Put(updates, "is_remote_updated", Some(_check_remote_updated(r)))
           ELSE Put(updates, "remote_error", ErrMsg)
      [] at = "sync" ->
           IF o = "ok" THEN Put(updates, "sync_status", Some(_get_sync_status(r)))
           ELSE Put(updates, "remote_error", ErrMsg)
      [] OTHER ->
           IF o = "ok" THEN Put(updates, "repo_url", _get_repo_url(r))
           ELSE Put(updates, "repo_url_error", ErrMsg)

\* _check_pr_exists and _get_sync_status read self.current_branch, which queries
\* and caches the branch when it is not cached; a call that raises may have
\* raised before that (kept = FALSE)
BranchLookup(own, r, at, kept) ==
    IF at \in {"pr", "remote", "sync"} /\ kept
    THEN current_branch_cached(own, r)
    ELSE own

\* process_repo_slow: one of its four calls returns or raises
SlowCall(r) ==
    /\ fut[r].state = "running" /\ fut[r].kind = "slow"
    /\ Ends(r, fut[r].at)
    /\ \E o \in Outcomes :
       \E kept \in (IF o = "ok" THEN {TRUE} ELSE BOOLEAN) :
         /\ fut' = [fut EXCEPT
                      ![r].state = IF NextSlowCall(fut[r].at, o) = "none"
                                   THEN "done" ELSE "running",
                      ![r].at = NextSlowCall(fut[r].at, o),
                      ![r].val = SlowUpdate(@, r, fut[r].at, o)]
         /\ cached_data' = [cached_data EXCEPT
                              ![r] = BranchLookup(@, r, fut[r].at, kept)]
         /\ calls' = [calls EXCEPT ![r][fut[r].at] = o]
         /\ faults_left' = Spend(o)
    /\ UNCHANGED <<confVars, cacheVars, pc, cur, results,
                   completed_count, display_lock, callbacks, frame, display, term>>

\* for future in as_completed(futures): repo_name, updates = future.result();
\* self.update_result(repo_name, updates), up to the end of its merge
YieldSlow(r) ==
    /\ pc = "slow_wait"
    /\ fut[r].state = "done" /\ fut[r].kind = "slow"
    /\ display_lock = "free"
    /\ display_lock' = "main"
    /\ results' = update_result(results, real_name(r), fut[r].val)
    /\ fut' = [fut EXCEPT ![r].state = "yielded"]
    /\ cur' = r
    /\ pc' = "slow_locked"
    /\ UNCHANGED <<confVars, faults_left, cacheVars, cached_data, completed_count,
                   calls, callbacks, frame, display, term>>

\* the end of the with self.display_lock block of update_result
ReleaseSlow ==
    /\ pc = "slow_locked"
    /\ display_lock' = "free"
    /\ pc' = "slow_cb"
    /\ UNCHANGED <<confVars, faults_left, cacheVars, cached_data, cur, fut, results,
                   completed_count, calls, callbacks, frame, display, term>>

\* display_callback(self.results, "slow")
CallbackSlow ==
    /\ pc = "slow_cb"
    /\ callbacks' = [callbacks EXCEPT !.slow = @ + 1]
    /\ frame' = [tag |-> "slow", trigger |-> cur, rows |-> DOMAIN results]
    /\ Show(update_display(display, Values(results), "slow"), FALSE)
    /\ pc' = "slow_wait"
    /\ UNCHANGED <<confVars, faults_left, cacheVars, cached_data, cur, fut, results,
                   completed_count, display_lock, calls>>

\* the slow executor's with block ends and process_all returns self.results
Return ==
    /\ pc = "slow_wait"
    /\ AllYielded
    /\ pc' = "returned"
    /\ UNCHANGED <<confVars, faults_left, cacheVars, cached_data, cur, fut, results,
                   completed_count, display_lock, calls, callbacks, frame, display, term>>

\* main: progressive_display.final_display(results)
FinalDisplay ==
    /\ pc = "returned"
    /\ callbacks' = [callbacks EXCEPT !.final = @ + 1]
    /\ frame' = [tag |-> "", trigger |-> 0, rows |-> DOMAIN results]
    /\ Show(final_display(display, Values(results)), TRUE)
    /\ pc' = "done"
    /\ UNCHANGED <<confVars, faults_left, cacheVars, cached_data, cur, fut, results,
                   completed_count, display_lock, calls>>

Worker ==
    \E r \in repos :
        StartFast(r) \/ FastUnstaged(r) \/ FastBranch(r) \/ StartSlow(r) \/ SlowCall(r)

Main ==
    \/ Scan \/ SubmitFast \/ ReleaseFast \/ CallbackFast \/ SubmitSlow
    \/ ReleaseSlow \/ CallbackSlow \/ Return \/ FinalDisplay
    \/ \E r \in repos : YieldFast(r) \/ YieldSlow(r)

Next ==
    \/ Scan
    \/ SubmitFast
    \/ \E r \in repos : StartFast(r)
    \/ \E r \in repos : FastUnstaged(r)
    \/ \E r \in repos : FastBranch(r)
    \/ \E r \in repos : YieldFast(r)
    \/ ReleaseFast
    \/ CallbackFast
    \/ SubmitSlow
    \/ \E r \in repos : StartSlow(r)
    \/ \E r \in repos : SlowCall(r)
    \/ \E r \in repos : YieldSlow(r)
    \/ ReleaseSlow
    \/ CallbackSlow
    \/ Return
    \/ FinalDisplay

Spec == Init /\ [][Next]_vars

\* the same run with pools of several sizes, more repositories and no failing call
SpecPool == InitPool /\ [][Next]_vars

\* the scheduling of the run: the main thread and the pool workers keep running,
\* and every data-source call returns or raises
\* (the run starts from an empty cache: nothing in it decides what is enabled)
InitFair == InitRun(1..NumRepos, {DefaultMaxWorkers}, MaxFaults, {EmptyDict}, "record")

SpecFair == InitFair /\ [][Next]_vars /\ WF_vars(Main) /\ WF_vars(Worker)

\* the calls one of which can block for ever, or none
Stalls(R) == {NoStall} \cup {<<r, c>> : r \in R, c \in AllCalls}

\* the run with at most one call that never returns and no call that raises
InitStall ==
    /\ RunStart(1..NumRepos, {DefaultMaxWorkers}, 0, {EmptyDict}, "record")
    /\ stalled \in Stalls(1..NumRepos)

\* the scheduling is that of SpecFair: the call that blocks is never enabled,
\* every other step is taken in the end
SpecStall == InitStall /\ [][Next]_vars /\ WF_vars(Main) /\ WF_vars(Worker)

\* the status command of main: process_all with the ProgressiveDisplay attached
InitStatus == InitRun(1..NumRepos, {DefaultMaxWorkers}, MaxFaults, {EmptyDict},
                      "update_display")

SpecStatus == InitStatus /\ [][Next]_vars

(***************************************************************************)
(* Properties of the status run.                                           *)
(***************************************************************************)
Started(r, kind) ==
    fut[r].kind = kind /\ fut[r].state \in {"running", "done", "yielded"}

FastCompleted(r) ==
    /\ calls[r]["unstaged"] # "none"
    /\ calls[r]["branch"] # "none"
    /\ real_name(r) \in DOMAIN results

\* C1: phase barrier.  Whenever a slow-phase task of some repository has
\* started, the fast-phase task of every repository has completed and its
\* RepoResult is in the result map; fast and slow tasks are never in flight
\* together.
C1_PhaseBarrier ==
    /\ \A r \in repos : Started(r, "slow") => \A q \in repos : FastCompleted(q)
    /\ ~(Running("fast") # {} /\ Running("slow") # {})
    /\ Running("slow") # {} => pc \in {"slow_wait", "slow_locked", "slow_cb"}

C1_Witness ==
    /\ \E r \in repos : fut[r].kind = "slow" /\ fut[r].state = "running"
    /\ \E r \in repos : fut[r].kind = "slow" /\ fut[r].state = "queued"

\* C2: concurrency bound.  At most max_workers fast-phase tasks and at most
\* min(4, max_workers) slow-phase tasks are executing data-source calls at
\* once; with the default of 8 workers, at most 8 and at most 4.
C2_ConcurrencyBound ==
    /\ Cardinality(Running("fast")) <= max_workers
    /\ Cardinality(Running("slow")) <= Min(4, max_workers)
    /\ max_workers = 8 =>
         /\ Cardinality(Running("fast")) <= 8
         /\ Cardinality(Running("slow")) <= 4

\* the slow pool is full while a slow task waits in the queue, with more
\* workers allowed than the cap of the slow pool
C2_Witness ==
    /\ max_workers > 4
    /\ Cardinality(Running("slow")) = 4
    /\ \E r \in repos : fut[r].kind = "slow" /\ fut[r].state = "queued"

ErrorKeys == {"pr_error", "remote_error", "repo_url_error"}

ErrorTag(key) ==
    CASE key = "pr_error" -> "pr"
      [] key = "remote_error" -> "remote"
      [] OTHER -> "repo_url"

\* the updates of a slow task are in the RepoResult of its repository
Merged(rs, name, updates) ==
    /\ name \in DOMAIN rs
    /\ \A k \in DOMAIN updates :
         IF k \in ErrorKeys
         THEN /\ ErrorTag(k) \in DOMAIN rs[name].errors
              /\ rs[name].errors[ErrorTag(k)] = updates[k]
         ELSE rs[name][k] = updates[k]

Yielded(kind) == {r \in repos : fut[r].kind = kind /\ fut[r].state = "yielded"}

\* the callback for the completion the main thread is handling is still to come
Pending(kind) ==
    IF pc \in {kind \o "_locked", kind \o "_cb"} THEN 1 ELSE 0

\* C3: one callback per completion.  The callback has been invoked once for
\* every completion handled so far (N times with tag "fast" and N times with
\* tag "slow" when process_all returns), no "slow" callback comes before the
\* last "fast" one, and when a callback is invoked the result of the completion
\* that triggered it is merged into the result map it is given.
C3_OneCallbackPerCompletion ==
    /\ callbacks.fast + Pending("fast") = Cardinality(Yielded("fast"))
         \/ (callbacks.fast = Cardinality(repos) /\ Yielded("fast") = {})
    /\ callbacks.slow + Pending("slow") = Cardinality(Yielded("slow"))
    /\ callbacks.slow + Pending("slow") > 0 => callbacks.fast = Cardinality(repos)
    /\ pc \in {"returned", "done"} =>
         /\ callbacks.fast = Cardinality(repos)
         /\ callbacks.slow = Cardinality(repos)
    /\ pc = "fast_cb" =>
         /\ real_name(cur) \in DOMAIN results
         /\ results[real_name(cur)] = fut[cur].val
    /\ pc = "slow_cb" => Merged(results, real_name(cur), fut[cur].val)

\* the second "slow" callback is about to be invoked for a task with an error
C3_Witness ==
    /\ pc = "slow_cb"
    /\ callbacks.slow = 1
    /\ DOMAIN fut[cur].val \cap ErrorKeys # {}

\* every task of both phases has completed and is merged into the result map
AllMerged ==
    \A r \in repos :
        /\ FastCompleted(r)
        /\ \A c \in {"pr", "remote", "url"} : calls[r][c] # "none"
        /\ fut[r].kind = "slow" /\ fut[r].state = "yielded"
        /\ Merged(results, real_name(r), fut[r].val)

\* C4: synchronous termination.  process_all has returned only when every
\* fast-phase and every slow-phase task has completed and is merged; and, every
\* data-source call returning or raising, process_all eventually returns.
C4_SynchronousTermination ==
    /\ [](pc \in {"returned", "done"} => AllMerged)
    /\ <>(pc = "returned")

C4_Witness ==
    /\ pc = "returned"
    /\ \E r \in repos : calls[r]["sync"] = "raise"

\* the value a call of the data source returns, as the RepoResult holds it
Returned(r, c) ==
    CASE c = "unstaged" -> Some(_get_unstaged_changes(r))
      [] c = "branch" -> Some(_get_current_branch(r))
      [] c = "pr" -> Some(_check_pr_exists(r))
      [] c = "sync" -> Some(_get_sync_status(r))
      [] OTHER -> _get_repo_url(r)

FieldOf(c) ==
    CASE c = "unstaged" -> "unstaged_changes"
      [] c = "branch" -> "current_branch"
      [] c = "pr" -> "pr_info"
      [] c = "sync" -> "sync_status"
      [] OTHER -> "repo_url"

TagOf(c) ==
    CASE c = "unstaged" -> "unstaged"
      [] c = "branch" -> "branch"
      [] c = "pr" -> "pr"
      [] c = "remote" -> "remote"
      [] c = "sync" -> "remote"
      [] OTHER -> "repo_url"

\* C5: partial-failure isolation.  When process_all has returned, every call of
\* every repository was made whatever other calls raised (the sync call unless
\* the remote call of the same field raised), each of the five fields whose own
\* call returned holds the value that call returned, and every call that raised
\* is recorded under its field's tag: no failure leaves a sibling field or a
\* field of another repository unset, and none propagates out of process_all.
C5_PartialFailureIsolation ==
    pc \in {"returned", "done"} =>
        \A r \in repos :
            /\ \A c \in AllCalls \ {"sync"} : calls[r][c] # "none"
            /\ calls[r]["remote"] = "ok" => calls[r]["sync"] # "none"
            /\ \A c \in AllCalls \ {"remote"} :
                 calls[r][c] = "ok" => results[real_name(r)][FieldOf(c)] = Returned(r, c)
            /\ \A c \in AllCalls :
                 calls[r][c] = "raise" => TagOf(c) \in DOMAIN results[real_name(r)].errors

\* the PR lookup of repository 1 raised; its sync_status and repo_url and all
\* five fields of repository 2 are there
C5_Witness ==
    /\ pc = "returned"
    /\ calls[1]["pr"] = "raise"
    /\ IsSet(results[1].sync_status) /\ IsSet(results[1].repo_url)
    /\ \A c \in AllCalls : calls[2][c] = "ok"
    /\ IsSet(results[2].unstaged_changes) /\ IsSet(results[2].current_branch)
    /\ IsSet(results[2].pr_info) /\ IsSet(results[2].sync_status)

\* a field group of a RepoResult has a value and an error at once
SetAndErrored(res) ==
    \/ IsSet(res.unstaged_changes) /\ "unstaged" \in DOMAIN res.errors
    \/ IsSet(res.current_branch) /\ "branch" \in DOMAIN res.errors
    \/ IsSet(res.pr_info) /\ "pr" \in DOMAIN res.errors
    \/ (IsSet(res.sync_status) \/ IsSet(res.is_remote_updated))
         /\ "remote" \in DOMAIN res.errors
    \/ IsSet(res.repo_url) /\ "repo_url" \in DOMAIN res.errors

\* C6: never both set and errored.  In every result map a progress callback is
\* given, and in the one process_all returns, no field group of any repository
\* (unstaged, branch, pr, remote/sync with the legacy is_remote_updated
\* boolean, repo_url) has a value while errors holds its tag.
C6_NeverSetAndErrored ==
    pc \in {"fast_cb", "slow_cb", "returned"} =>
        \A n \in DOMAIN results : ~SetAndErrored(results[n])

\* C7: the fast phase uses the cache.  For a repository whose cache entry is
\* valid, the fast phase issues no data-source query for unstaged_changes and
\* current_branch and its RepoResult holds the cached values.
C7_FastPhaseUsesCache ==
    \A r \in repos :
        is_cached_valid(cache_data, git_files[r], r) =>
            /\ calls[r]["unstaged"] = "none"
            /\ calls[r]["branch"] = "none"
            /\ real_name(r) \in DOMAIN results =>
                 /\ results[real_name(r)].unstaged_changes =
                        Some(get_cached_data(cache_data, r)["unstaged_changes"])
                 /\ results[real_name(r)].current_branch =
                        Some(get_cached_data(cache_data, r)["current_branch"])

\* the data of a cache entry holds every value the run gathered
StoresGathered(entry, res) ==
    \A f \in CacheFields \ {"repo_url"} :
        IsSet(res[f]) => f \in DOMAIN entry.data /\ entry.data[f] = res[f][1]

\* C8: cache persistence after gathering.  A repository's cache entry is not
\* written before all its fast and slow fields are gathered, and when the
\* status run is over it was written exactly once and holds the values
\* gathered in this run.
C8_CachePersistedAfterGathering ==
    \A r \in repos :
        /\ cache_writes[r] > 0 =>
             /\ FastCompleted(r)
             /\ fut[r].kind = "slow" /\ fut[r].state \in {"done", "yielded"}
        /\ pc = "done" =>
             /\ cache_writes[r] = 1
             /\ r \in DOMAIN cache_data
             /\ StoresGathered(cache_data[r], results[real_name(r)])

(***************************************************************************)
(* GitCache on its own: set_cache_data, is_cached_valid, get_cached_data   *)
(* and clear_cache, called in any order while the git metadata files of a  *)
(* repository are modified.                                                *)
(***************************************************************************)
NoFiles == [index |-> None, HEAD |-> None, refs |-> {}]

AllFiles == [index |-> Some(1), HEAD |-> Some(1), refs |-> {1}]

\* a repository whose index file does not exist
NoIndex == [index |-> None, HEAD |-> Some(1), refs |-> {1}]

StartFiles == {NoFiles, AllFiles, NoIndex}

\* the repositories whose metadata files are modified during the cache runs
TouchPaths == {1}

\* the field maps given to set_cache_data
DataMaps ==
    { EmptyDict,
      [unstaged_changes |-> 3],
      [current_branch |-> "main", repo_url |-> None] }

InitCache ==
    /\ repos = 1..CachePaths
    /\ max_workers = DefaultMaxWorkers
    /\ display_callback = "record"
    /\ stalled = NoStall
    /\ faults_left = 0
    /\ git_files \in {g \in [repos -> StartFiles] :
                         \A p \in repos \ TouchPaths : g[p] = AllFiles}
    /\ cache_data = EmptyDict
    /\ cache_file = EmptyDict
    /\ cache_file_state = "missing"
    /\ cached_data = [r \in repos |-> EmptyDict]
    /\ pc = "cache"
    /\ cur = 0
    /\ fut = [r \in repos |-> NoFuture]
    /\ results = EmptyDict
    /\ completed_count = 0
    /\ display_lock = "free"
    /\ calls = [r \in repos |-> [c \in AllCalls |-> "none"]]
    /\ cache_writes = [r \in repos |-> 0]
    /\ callbacks = [fast |-> 0, slow |-> 0, final |-> 0]
    /\ frame = NoFrame
    /\ display = NewDisplay
    /\ term = NoOutput
    /\ ret = NoRet

\* what the operations of the cache leave alone, but for the failures left
idleVars == <<confVars, cached_data, procVars, calls, cache_writes>>

runVars == <<idleVars, faults_left>>

\* the _save_cache that ends set_cache_data and clear_cache, with outcome o
SaveCache(o) ==
    LET file == _save_cache(o, cache_data', cache_file_state, cache_file)
    IN  /\ cache_file' = file.content
        /\ cache_file_state' = file.state
        /\ faults_left' = IF o = "ok" THEN faults_left ELSE faults_left - 1

\* GitCache.set_cache_data(p, d), with the _save_cache it ends with
SetCacheData(p, d) ==
    /\ pc = "cache"
    /\ cache_data' = set_cache_data(cache_data, git_files[p], p, d)
    /\ \E o \in WriteOutcomes : SaveCache(o)
    /\ ret' = [op |-> "set_cache_data", path |-> p, data |-> d]
    /\ UNCHANGED <<idleVars, git_files>>

\* GitCache.is_cached_valid(p)
IsCachedValid(p) ==
    /\ pc = "cache"
    /\ ret' = IF is_cached_valid_raises(cache_data, p)
              THEN [op |-> "is_cached_valid", path |-> p,
                    raised |-> "AttributeError"]
              ELSE [op |-> "is_cached_valid", path |-> p,
                    valid |-> is_cached_valid(cache_data, git_files[p], p)]
    /\ UNCHANGED <<runVars, git_files, cache_data, cache_file, cache_file_state>>

\* GitCache.get_cached_data(p)
GetCachedData(p) ==
    /\ pc = "cache"
    /\ ret' = [op |-> "get_cached_data", path |-> p,
               data |-> get_cached_data(cache_data, p)]
    /\ UNCHANGED <<runVars, git_files, cache_data, cache_file, cache_file_state>>

\* GitCache.clear_cache()
ClearCache ==
    /\ pc = "cache"
    /\ cache_data' = EmptyDict
    /\ \E o \in WriteOutcomes : SaveCache(o)
    /\ ret' = [op |-> "clear_cache"]
    /\ UNCHANGED <<idleVars, git_files>>

\* git (or the user) writes .git/index or .git/HEAD of p: its mtime advances to t
TouchFile(p, f, t) ==
    /\ pc = "cache"
    /\ p \in TouchPaths
    /\ IsSet(git_files[p][f])
    /\ t > git_files[p][f][1]
    /\ git_files' = [git_files EXCEPT ![p][f] = Some(t)]
    /\ ret' = [op |-> "touch", path |-> p, file |-> f,
               after_set |-> ret.op = "set_cache_data" /\ ret.path = p]
    /\ UNCHANGED <<runVars, cache_data, cache_file, cache_file_state>>

\* git writes a file under .git/refs of p: its mtime advances from old to t
TouchRef(p, old, t) ==
    /\ pc = "cache"
    /\ p \in TouchPaths
    /\ old \in git_files[p].refs
    /\ t > old
    /\ git_files' = [git_files EXCEPT ![p].refs = (@ \ {old}) \cup {t}]
    /\ ret' = [op |-> "touch", path |-> p, file |-> "refs",
               after_set |-> ret.op = "set_cache_data" /\ ret.path = p]
    /\ UNCHANGED <<runVars, cache_data, cache_file, cache_file_state>>

NextCache ==
    \/ \E p \in repos, d \in DataMaps : SetCacheData(p, d)
    \/ \E p \in repos : IsCachedValid(p)
    \/ \E p \in repos : GetCachedData(p)
    \/ ClearCache
    \/ \E p \in repos, f \in {"index", "HEAD"}, t \in 1..MaxTime : TouchFile(p, f, t)
    \/ \E p \in repos, old \in 1..MaxTime, t \in 1..MaxTime : TouchRef(p, old, t)

SpecCache == InitCache /\ [][NextCache]_vars

\* C9: cache round-trip.  Right after set_cache_data(p, d), with no change to
\* the repository's git metadata files, is_cached_valid(p) is true and
\* get_cached_data(p) is exactly d.
C9_CacheRoundTrip ==
    ret.op = "set_cache_data" =>
        /\ is_cached_valid(cache_data, git_files[ret.path], ret.path)
        /\ get_cached_data(cache_data, ret.path) = ret.data

\* set_cache_data replaced an entry with other data, after the metadata files
\* were modified
C9_Witness ==
    /\ ret.op = "set_cache_data"
    /\ ret.path = 1
    /\ ret.data = [unstaged_changes |-> 3]
    /\ _get_git_mtime(git_files[1]) = MaxTime
    /\ cache_file = cache_data

\* the HEAD file of a repository was advanced right after set_cache_data
HeadAdvancedAfterSet ==
    /\ ret.op = "touch"
    /\ ret.file = "HEAD"
    /\ ret.after_set

\* C10: invalidation.  After set_cache_data(p, d), advancing the mtime of the
\* repository's HEAD file to any later value makes is_cached_valid(p) false,
\* whatever the mtimes of the index file and of the refs files are.
C10_HeadAdvanceInvalidates ==
    HeadAdvancedAfterSet =>
        ~is_cached_valid(cache_data, git_files[ret.path], ret.path)

\* C10, amended: after set_cache_data(p, d), advancing the mtime of the HEAD
\* file makes is_cached_valid(p) false exactly when the new mtime is later than
\* the mtime set_cache_data stored, the latest of the index file, the HEAD file
\* and the refs files at that time.
C10_HeadAdvanceBeyondStored ==
    HeadAdvancedAfterSet =>
        (~is_cached_valid(cache_data, git_files[ret.path], ret.path)
           <=> git_files[ret.path].HEAD[1] > cache_data[ret.path].mtime)

\* HEAD was advanced past an index file that is newer than the old HEAD
C10_Witness ==
    /\ HeadAdvancedAfterSet
    /\ IsSet(git_files[ret.path].index)
    /\ git_files[ret.path].index[1] = 2
    /\ git_files[ret.path].HEAD[1] = 3
    /\ cache_data[ret.path].mtime = 2

\* the modification times of the files of a repository that count: .git/index,
\* .git/HEAD and the files under .git/refs, those that exist
CountedTimes(files) ==
    {files[f][1] : f \in {f \in {"index", "HEAD"} : IsSet(files[f])}} \cup files.refs

\* currentMtime: the latest of them, 0 when there is none
CurrentMtime(files) ==
    IF CountedTimes(files) = {} THEN 0
    ELSE CHOOSE m \in CountedTimes(files) : \A t \in CountedTimes(files) : m >= t

\* C30: validity definition.  is_cached_valid(p) is true iff the cache has an
\* entry for p whose stored mtime is >= currentMtime, the latest modification
\* time among the repository's index file, HEAD file and the files under refs,
\* and 0 when none of them exists; for a path without entry it is false.
C30_ValidityDefinition ==
    (ret.op = "is_cached_valid" /\ "valid" \in DOMAIN ret) =>
        /\ ret.valid <=>
               /\ ret.path \in DOMAIN cache_data
               /\ cache_data[ret.path].mtime >= CurrentMtime(git_files[ret.path])
        /\ ret.path \notin DOMAIN cache_data => ~ret.valid

\* an entry stored when a file under refs was the latest is found valid, its
\* stored mtime equal to the current one; and so is one of a repository with
\* none of the files
C30_Witness ==
    /\ ret.op = "is_cached_valid" /\ "valid" \in DOMAIN ret /\ ret.valid
    /\ \/ /\ git_files[ret.path].refs = {MaxTime}
          /\ git_files[ret.path].index = Some(1)
          /\ cache_data[ret.path].mtime = MaxTime
       \/ /\ git_files[ret.path] = NoFiles
          /\ cache_data[ret.path].mtime = 0

(***************************************************************************)
(* GitCache from construction: _load_cache reads whatever .mgit/cache.json *)
(* holds, then the operations are called in any order; a write of          *)
(* _save_cache may fail.                                                   *)
(***************************************************************************)
\* a well-formed entry
GoodEntry == [mtime |-> 1, data |-> [unstaged_changes |-> 3]]

\* the values the file can hold for a repository: a well-formed entry, a value
\* that is not an object, an object without "mtime", one without "data", one
\* whose "mtime" is not a number, one whose "data" is not an object
LoadEntries ==
    { GoodEntry,
      NonDict("number"),
      [data |-> [unstaged_changes |-> 3]],
      [mtime |-> 1],
      [mtime |-> NonNumber, data |-> [unstaged_changes |-> 3]],
      [mtime |-> 1, data |-> NonDict("list")] }

\* the JSON objects the file can hold: the entry of repository 1 is any of
\* LoadEntries, the entries of the others are well formed
LoadContents(R) ==
    {c \in UNION {[S -> LoadEntries] : S \in SUBSET R} :
        \A p \in DOMAIN c \ {1} : c[p] = GoodEntry}

InitLoad ==
    /\ repos = 1..CachePaths
    /\ max_workers = DefaultMaxWorkers
    /\ display_callback = "record"
    /\ stalled = NoStall
    /\ faults_left = MaxFaults
    /\ git_files \in {g \in [repos -> {NoFiles, AllFiles}] :
                         \A p \in repos \ {1} : g[p] = AllFiles}
    /\ cache_data = EmptyDict
    /\ cache_file_state \in BadFileStates \cup {"object"}
    /\ cache_file \in IF cache_file_state = "object"
                      THEN LoadContents(repos) ELSE {EmptyDict}
    /\ cached_data = [r \in repos |-> EmptyDict]
    /\ pc = "load"
    /\ cur = 0
    /\ fut = [r \in repos |-> NoFuture]
    /\ results = EmptyDict
    /\ completed_count = 0
    /\ display_lock = "free"
    /\ calls = [r \in repos |-> [c \in AllCalls |-> "none"]]
    /\ cache_writes = [r \in repos |-> 0]
    /\ callbacks = [fast |-> 0, slow |-> 0, final |-> 0]
    /\ frame = NoFrame
    /\ display = NewDisplay
    /\ term = NoOutput
    /\ ret = NoRet

\* GitCache.__init__: self._cache_data = self._load_cache()
Load ==
    /\ pc = "load"
    /\ IF _load_cache_raises(cache_file_state)
       THEN /\ pc' = "load_raised"
            /\ ret' = [op |-> "load", raised |-> "UnicodeDecodeError"]
            /\ UNCHANGED cache_data
       ELSE /\ pc' = "cache"
            /\ cache_data' = _load_cache(cache_file_state, cache_file)
            /\ ret' = [op |-> "load"]
    /\ UNCHANGED <<confVars, faults_left, git_files, cache_file, cache_file_state,
                   cached_data, cur, fut, results, completed_count, display_lock,
                   calls, cache_writes, callbacks, frame, display, term>>

NextLoad ==
    \/ Load
    \/ \E p \in repos, d \in DataMaps : SetCacheData(p, d)
    \/ \E p \in repos : IsCachedValid(p)
    \/ \E p \in repos : GetCachedData(p)
    \/ ClearCache

SpecLoad == InitLoad /\ [][NextLoad]_vars

\* C11: the cache never fails the run.  Whatever .mgit/cache.json holds, none
\* of load, is_cached_valid, get_cached_data, set_cache_data and clear_cache
\* propagates an error to its caller, and after set_cache_data the in-memory
\* cache returns the data even when the write failed.
C11_CacheNeverFails ==
    /\ "raised" \notin DOMAIN ret
    /\ ret.op = "set_cache_data" =>
           get_cached_data(cache_data, ret.path) = ret.data

\* a step of set_cache_data(p, d): the entry of p is exactly the record of the
\* current mtime and d, and the other entries are those of before the call
EntryReplaced(p, d) ==
    /\ DOMAIN cache_data' = DOMAIN cache_data \cup {p}
    /\ cache_data'[p] = [mtime |-> CurrentMtime(git_files[p]), data |-> d]
    /\ DOMAIN cache_data'[p].data = DOMAIN d
    /\ \A q \in DOMAIN cache_data \ {p} : cache_data'[q] = cache_data[q]

\* the write of the step succeeded: the file holds a JSON object with the new
\* record for p and, for every other path, the entry it had before the call
FileRewritten(p, d) ==
    /\ cache_file_state' = "object"
    /\ DOMAIN cache_file' = DOMAIN cache_data \cup {p}
    /\ cache_file'[p] = [mtime |-> CurrentMtime(git_files[p]), data |-> d]
    /\ \A q \in DOMAIN cache_data \ {p} : cache_file'[q] = cache_data[q]

WholeRecordWrite ==
    ret'.op = "set_cache_data" =>
        /\ EntryReplaced(ret'.path, ret'.data)
        /\ faults_left' = faults_left => FileRewritten(ret'.path, ret'.data)

FastResult ==
    [RepoResult(2, 1) EXCEPT !.unstaged_changes = Some(0),
                             !.current_branch = Some("main")]

\* everything gathered; the branch name is wider than its column
FullResult ==
    [RepoResult(3, 1) EXCEPT
        !.unstaged_changes = Some(3),
        !.current_branch = Some("feature/with-a-long-branch-name"),
        !.pr_info = Some([exists |-> TRUE, number |-> Some(12), url |-> Some("pr-url")]),
        !.is_remote_updated = Some(FALSE),
        !.sync_status = Some([status |-> "behind", ahead |-> 0, behind |-> 2]),
        !.repo_url = Some("repo-url")]

\* every call raised
FailedResult ==
    [RepoResult(4, 2) EXCEPT
        !.errors = [unstaged |-> ErrMsg, branch |-> ErrMsg, pr |-> ErrMsg,
                    remote |-> ErrMsg, repo_url |-> ErrMsg]]

\* the fast phase not done; a pull request without number, a sync status that
\* is none of the four
OddResult ==
    [RepoResult(1, 3) EXCEPT
        !.pr_info = Some([exists |-> TRUE, number |-> None, url |-> None]),
        !.sync_status = Some([status |-> "unknown", ahead |-> 0, behind |-> 0])]

DisplayResults ==
    {FastResult, FullResult, FailedResult, OddResult}

\* results.values() of the result maps: up to MaxRows results with different
\* names, in any order of insertion
ResultMaps ==
    {vals \in UNION {[1..n -> DisplayResults] : n \in 0..MaxRows} :
        \A i, j \in 1..Len(vals) : i # j => vals[i].name # vals[j].name}

InitDisplay ==
    /\ repos = {}
    /\ max_workers = DefaultMaxWorkers
    /\ display_callback = "update_display"
    /\ stalled = NoStall
    /\ faults_left = 0
    /\ git_files = EmptyDict
    /\ cache_data = EmptyDict
    /\ cache_file = EmptyDict
    /\ cache_file_state = "missing"
    /\ cached_data = EmptyDict
    /\ pc = "display"
    /\ cur = 0
    /\ fut = EmptyDict
    /\ results = EmptyDict
    /\ completed_count = 0
    /\ display_lock = "free"
    /\ calls = EmptyDict
    /\ cache_writes = EmptyDict
    /\ callbacks = [fast |-> 0, slow |-> 0, final |-> 0]
    /\ frame = NoFrame
    /\ display = NewDisplay
    /\ term = NoOutput
    /\ ret = NoRet

\* what a call of the display leaves alone
stillVars == <<confVars, faults_left, cacheVars, cached_data, pc, cur, fut, results,
               completed_count, display_lock, calls, callbacks, frame>>

\* progressive_display.update_display(results, phase)
UpdateDisplay(vals, phase) ==
    /\ pc = "display"
    /\ term.calls < MaxFrames
    /\ LET u == update_display(display, vals, phase)
       IN  /\ display' = u.display
           /\ term' = Emit(term, vals, u.out, FALSE)
    /\ UNCHANGED stillVars

\* progressive_display.final_display(results)
FinalDisplayCall(vals) ==
    /\ pc = "display"
    /\ term.calls < MaxFrames
    /\ LET u == final_display(display, vals)
       IN  /\ display' = u.display
           /\ term' = Emit(term, vals, u.out, TRUE)
    /\ UNCHANGED stillVars

NextDisplay ==
    \/ \E vals \in ResultMaps : UpdateDisplay(vals, "fast")
    \/ \E vals \in ResultMaps : FinalDisplayCall(vals)

SpecDisplay == InitDisplay /\ [][NextDisplay]_vars

\* the rows a call printed
PrintedRows(out) == SelectSeq(out, LAMBDA o : o.op = "print_row")

\* the result of the snapshot with a name
Named(vals, name) == vals[CHOOSE i \in 1..Len(vals) : vals[i].name = name]

\* C12: sorted rows.  In every frame the printed rows are the results of the
\* map, each once, in non-decreasing display_name order, and row i (from 0) is
\* written at terminal line 3+i: the cursor is moved there and the line cleared
\* right before the row is printed.
C12_SortedRows ==
    term.calls > 0 =>
        LET rows == PrintedRows(term.out)
        IN  /\ Len(rows) = Len(term.input)
            /\ {rows[i].name : i \in 1..Len(rows)}
                  = {term.input[i].name : i \in 1..Len(term.input)}
            /\ \A i \in 1..(Len(rows) - 1) :
                   Named(term.input, rows[i].name).display_name
                      <= Named(term.input, rows[i + 1].name).display_name
            /\ \A j \in 1..Len(term.out) :
                   term.out[j].op = "print_row" =>
                       /\ j > 2
                       /\ term.out[j - 1] = [op |-> "clear_to_end_of_line"]
                       /\ term.out[j - 2] =
                              [op |-> "move_to_line",
                               line |-> 3 + CountOps(SubSeq(term.out, 1, j - 1),
                                                     "print_row")]

\* a frame of two rows whose results were inserted in decreasing order of
\* display name
C12_Witness ==
    /\ term.calls > 0
    /\ Len(term.input) = 2
    /\ term.input[1].display_name > term.input[2].display_name
    /\ Len(PrintedRows(term.out)) = 2

\* C14: header exactly once.  Over any sequence of update_display and
\* final_display calls on one display, the screen is cleared and the header and
\* the separator are printed exactly once: at the start of the first frame,
\* before any data row, and in no later frame.
C14_HeaderExactlyOnce ==
    term.calls > 0 =>
        /\ term.clears = 1
        /\ term.headers = 1
        /\ display.header_printed
        /\ IF term.calls = 1
           THEN /\ Len(term.out) >= 3
                /\ term.out[1].op = "clear_screen"
                /\ term.out[2].op = "print_header"
                /\ term.out[3].op = "print_separator"
                /\ \A j \in 4..Len(term.out) :
                       term.out[j].op \notin
                           {"clear_screen", "print_header", "print_separator"}
           ELSE \A j \in 1..Len(term.out) :
                    term.out[j].op \notin
                        {"clear_screen", "print_header", "print_separator"}

\* the third frame, with rows other than those of the second, of a display
\* that has cleared the screen once
C14_Witness ==
    /\ term.calls = 3
    /\ Len(PrintedRows(term.out)) = MaxRows
    /\ term.clears = 1
    /\ ~term.redraw

\* C15: final frame cursor.  final_display on a result map of n rows renders
\* one more frame, rows at lines 3 .. n+2, then moves the cursor one line below
\* the last row, to line n+3, and prints the trailing newline.
C15_FinalCursor ==
    term.final =>
        LET n == Len(term.input)
            last == Len(term.out)
        IN  /\ CountOps(term.out, "print_row") = n
            /\ \A i \in 1..n :
                   \E j \in 1..last : term.out[j] = [op |-> "move_to_line",
                                                     line |-> 2 + i]
            /\ term.out[last] = [op |-> "newline"]
            /\ term.out[last - 1] = [op |-> "move_to_line", line |-> n + 3]

\* the columns of a row: 1 is the repository name
FieldCols == 2..5

\* the errors tag of a column
ColTag(c) ==
    CASE c = 2 -> "unstaged"
      [] c = 3 -> "branch"
      [] c = 4 -> "pr"
      [] c = 5 -> "remote"

\* the field of a column is set; the sync column has the sync status and the
\* legacy boolean
FieldSet(v, c) ==
    CASE c = 2 -> IsSet(v.unstaged_changes)
      [] c = 3 -> IsSet(v.current_branch)
      [] c = 4 -> IsSet(v.pr_info)
      [] c = 5 -> IsSet(v.sync_status) \/ IsSet(v.is_remote_updated)

\* the field of a column is unset and has no recorded error
PendingCol(v, c) == ~FieldSet(v, c) /\ ColTag(c) \notin DOMAIN v.errors

\* spinner_chars[k mod 10], the sequence counted from 0
Glyph(k) == spinner_chars[(k % 10) + 1]

\* C16: placeholder glyph.  In every frame every cell whose field is unset and
\* has no recorded error shows spinner_chars[k mod 10], k the number of frames
\* rendered before; the glyph index is the number of update_display calls made
\* (final_display and calls with an empty map included), so it advances by one
\* per call and by nothing else.
C16_PlaceholderGlyph ==
    /\ display.spinner_index = term.calls
    /\ term.calls > 0 =>
           LET rows == PrintedRows(term.out)
           IN  \A i \in 1..Len(rows), c \in FieldCols :
                   PendingCol(Named(term.input, rows[i].name), c) =>
                       rows[i].cells[c] = Plain(Glyph(term.calls - 1))

\* the eleventh frame shows the first glyph again in a pending cell
C16_Witness ==
    /\ term.calls = 11
    /\ \E i \in 1..Len(PrintedRows(term.out)) :
           /\ PendingCol(Named(term.input, PrintedRows(term.out)[i].name), 2)
           /\ PrintedRows(term.out)[i].cells[2] = Plain(spinner_chars[1])

\* the lines the cursor was moved to for the rows of a frame
RowLines(out) ==
    {out[j].line : j \in {k \in 1..Len(out) : /\ out[k].op = "move_to_line"
                                              /\ k + 2 <= Len(out)
                                              /\ out[k + 2].op = "print_row"}}

\* C17: idempotent redraw.  Two calls in a row with the identical result map
\* yield frames with the same rows in the same order at the same lines, the
\* same five column widths and the same cells but for the placeholder glyph of
\* the pending cells.
C17_IdempotentRedraw ==
    term.redraw =>
        LET a == PrintedRows(term.before)
            b == PrintedRows(term.out)
        IN  /\ Len(a) = Len(b)
            /\ RowLines(term.before) = RowLines(term.out)
            /\ \A i \in 1..Len(b) :
                   /\ a[i].name = b[i].name
                   /\ a[i].widths = b[i].widths
                   /\ a[i].cells[1] = b[i].cells[1]
                   /\ \A c \in FieldCols :
                          \/ a[i].cells[c] = b[i].cells[c]
                          \/ PendingCol(Named(term.input, b[i].name), c)

\* a redraw of two rows with errored cells, pending cells and a branch wider
\* than its column
C17_Witness ==
    /\ term.redraw
    /\ Len(term.input) = 2
    /\ term.input[1] = FailedResult
    /\ term.input[2] = FullResult
    /\ PrintedRows(term.out)[1].widths[3] > 20

\* the fixed minimum of a column
MinWidth(c) == <<30, 10, 20, 8, 14>>[c]

\* what a padded column shows: its text and the blanks around it
Shown(col) == col.left + Len(col.cell.text) + col.right

\* the visible length of the line of a printed row
LineLen(row) ==
    Shown(row.cols[1]) + Shown(row.cols[2]) + Shown(row.cols[3])
    + Shown(row.cols[4]) + Shown(row.cols[5]) + 4

\* C23: column widths and alignment.  In every frame each of the five column
\* widths is max(fixed minimum, greatest visible length of the column's cells
\* over the rows of the frame), the minimums being 30, 10, 20, 8, 14 and the
\* visible length the length of the text without hyperlink and colour
\* sequences; the header of the first frame has these widths, and every data
\* row of a frame has the same visible length, the five widths and four blanks.
C23_WidthsAndAlignment ==
    term.calls > 0 =>
        LET rows == PrintedRows(term.out)
            width(c) == SetMax({MinWidth(c)}
                               \cup {Len(rows[i].cells[c].text) : i \in 1..Len(rows)})
            w == <<width(1), width(2), width(3), width(4), width(5)>>
        IN  /\ \A j \in 1..Len(term.out) :
                   term.out[j].op \in {"print_row", "print_header"} =>
                       term.out[j].widths = w
            /\ \A i \in 1..Len(rows) :
                   /\ \A c \in 1..5 : Shown(rows[i].cols[c]) = w[c]
                   /\ LineLen(rows[i]) = w[1] + w[2] + w[3] + w[4] + w[5] + 4
                   /\ rows[i].cols[5].right - rows[i].cols[5].left \in {0, 1}

\* a frame of a row with hyperlinks, a colour and a branch wider than the
\* minimum and a row of plain cells, the two lines equally long
C23_Witness ==
    /\ term.calls > 0
    /\ {term.input[i] : i \in 1..Len(term.input)} = {FullResult, FailedResult}
    /\ \E i, j \in 1..Len(PrintedRows(term.out)) :
           /\ IsSet(PrintedRows(term.out)[i].cells[1].link)
           /\ IsSet(PrintedRows(term.out)[i].cells[4].link)
           /\ PrintedRows(term.out)[i].cells[5].color # "none"
           /\ PrintedRows(term.out)[i].widths[3] = Len("feature/with-a-long-branch-name")
           /\ PrintedRows(term.out)[j].cells[5] = Plain("Error")
           /\ LineLen(PrintedRows(term.out)[i]) = LineLen(PrintedRows(term.out)[j])

(***************************************************************************)
(* Properties of the status command: the run with the display attached.    *)
(***************************************************************************)
\* the number of data rows of the last frame
RowCount == CountOps(term.out, "print_row")

\* C13: row count invariant.  Across all frames of one run (every fast-tagged
\* frame, every slow-tagged frame and the final frame) the number of data rows
\* is the same: the final frame has a row for every repository, so every frame
\* has.
C13_RowCountInvariant ==
    term.calls > 0 => RowCount = Cardinality(repos)

\* C13, amended: every slow-tagged frame and the final frame render one row
\* per repository; the k-th fast-tagged frame renders k rows, the results
\* inserted so far.
C13_RowCountFixedAfterFast ==
    term.calls > 0 =>
        /\ frame.tag \in {"slow", ""} => RowCount = Cardinality(repos)
        /\ frame.tag = "fast" => RowCount = callbacks.fast

\* the first slow-tagged frame of a run of several repositories
C13_Witness ==
    /\ frame.tag = "slow"
    /\ callbacks.slow = 1
    /\ RowCount = NumRepos
    /\ NumRepos > 1

\* what a column shows for a field that is set
ValueCell(v, c) ==
    CASE c = 2 -> Plain(ToString(v.unstaged_changes[1]))
      [] c = 3 -> Plain(v.current_branch[1])
      [] c = 4 -> IF v.pr_info[1].exists
                  THEN IF IsSet(v.pr_info[1].number) /\ IsSet(v.pr_info[1].url)
                       THEN [text |-> ToString(v.pr_info[1].number[1]),
                             link |-> v.pr_info[1].url, color |-> "none"]
                       ELSE Plain("Yes")
                  ELSE Plain("No")
      [] c = 5 -> _get_sync_indicator(v)

\* C18: three-way cell rule.  In every frame, each of the unstaged, branch, PR
\* and sync cells of every row is the rendering of the value if the field is
\* set, "Error" if the field is unset and errors holds its tag, and the
\* placeholder glyph otherwise; in particular every field whose computation
\* failed, whose tag errors holds, renders as "Error".
C18_ThreeWayCellRule ==
    term.calls > 0 =>
        LET rows == PrintedRows(term.out)
        IN  \A i \in 1..Len(rows), c \in FieldCols :
                LET v == Named(term.input, rows[i].name)
                    cell == rows[i].cells[c]
                IN  /\ cell = IF FieldSet(v, c) THEN ValueCell(v, c)
                              ELSE IF ColTag(c) \in DOMAIN v.errors
                                   THEN Plain("Error")
                                   ELSE Plain(Glyph(term.calls - 1))
                    /\ ColTag(c) \in DOMAIN v.errors => cell = Plain("Error")

\* the names of the repositories given to the processor
AllNames == {real_name(r) : r \in repos}

\* the terminal line of a repository once every repository has its row: rows
\* are in display_name order from line 3 on
LineOf(r) == 3 + Cardinality({q \in repos : display_name(q) < display_name(r)})

\* the line the cursor was moved to for the row of a name in the last frame
PrintedLine(name) ==
    LET j == CHOOSE k \in 1..Len(term.out) :
                 term.out[k].op = "print_row" /\ term.out[k].name = name
    IN  term.out[j - 2].line

\* the main thread has left the loop over the fast futures
FastPhaseOver == pc \in {"slow_wait", "slow_locked", "slow_cb", "returned", "done"}

\* the rows of the slow-tagged frames and of the final frame, and the keys of
\* the result map once the fast phase is over
KeysComplete ==
    /\ frame.tag \in {"slow", ""} =>
           (/\ frame.rows = AllNames
            /\ {PrintedRows(term.out)[i].name : i \in 1..RowCount} = AllNames
            /\ RowCount = Cardinality(repos)
            /\ \A r \in repos : PrintedLine(real_name(r)) = LineOf(r))
    /\ FastPhaseOver => DOMAIN results = AllNames

\* a step keeps the keys of the result map, and adds none in the slow phase
KeysKept ==
    /\ DOMAIN results \subseteq DOMAIN results'
    /\ FastPhaseOver => DOMAIN results' = DOMAIN results

\* C24: stable key set in the slow phase.  In every slow-tagged frame and in
\* the final frame the rows are the repositories given to the processor, each
\* at the same terminal line in all of these frames; from the start of the slow
\* phase on the result map has a key for every repository, no step removes a
\* key from the result map, and no step of the slow phase adds one.
C24_StableKeySet == []KeysComplete /\ [][KeysKept]_vars

\* the last slow-tagged frame of a run of several repositories, one of which
\* has a slow error merged
C24_Witness ==
    /\ frame.tag = "slow"
    /\ callbacks.slow = NumRepos
    /\ NumRepos > 1
    /\ frame.rows = AllNames
    /\ \E n \in AllNames : "remote" \in DOMAIN results[n].errors

\* the fields of a RepoResult the two phases set
ResultFields == {"unstaged_changes", "current_branch", "pr_info",
                 "is_remote_updated", "sync_status", "repo_url"}

\* a step leaves every set field and every errors entry of the result map as
\* it is
NothingOverwritten ==
    \A n \in DOMAIN results :
        /\ n \in DOMAIN results'
        /\ \A f \in ResultFields :
               IsSet(results[n][f]) => results'[n][f] = results[n][f]
        /\ \A t \in DOMAIN results[n].errors :
               /\ t \in DOMAIN results'[n].errors
               /\ results'[n].errors[t] = results[n].errors[t]

\* C25: no overwrite.  Within one run, once a field of a repository's
\* RepoResult (unstaged_changes, current_branch, pr_info, is_remote_updated,
\* sync_status, repo_url) or an entry of its errors map is set in the result
\* map, no later step changes it to another value or back to unset.
C25_NoOverwrite == [][NothingOverwritten]_vars

\* a slow merge has just added slow fields to a RepoResult whose fast phase
\* left a value and an error
C25_Witness ==
    /\ pc = "slow_locked"
    /\ IsSet(results[real_name(cur)].current_branch)
    /\ "unstaged" \in DOMAIN results[real_name(cur)].errors
    /\ IsSet(results[real_name(cur)].pr_info)
    /\ IsSet(results[real_name(cur)].sync_status)

\* a step that changes the result map is made with the lock held at its end
\* (the insertion and the merge are made inside the with block), and a step
\* that invokes the progress callback is made with the lock held
LockedStep ==
    /\ results' # results => display_lock' = "main"
    /\ (callbacks'.fast # callbacks.fast \/ callbacks'.slow # callbacks.slow) =>
           display_lock = "main"

\* C26: lock covers merge and callback.  Every insertion into the result map,
\* every merge of slow fields into a RepoResult and every progress callback's
\* read of the result map is performed while display_lock is held.
C26_LockCoversMergeAndCallback == [][LockedStep]_vars

\* the main thread is at a progress callback: it has released the lock and
\* the callback has not returned
InCallback == pc \in {"fast_cb", "slow_cb"}

\* a step of a pool worker: the main thread stays where it is
WorkerStep == pc' = pc

\* while a callback is executing no step changes the result map, and no step
\* of a worker ever does
SnapshotStable ==
    /\ InCallback => results' = results
    /\ WorkerStep => results' = results

\* C27: renderer reads a stable snapshot.  While a progress callback is
\* executing no thread modifies the result map or a RepoResult in it, in every
\* interleaving of the workers; the workers never write to the result map.
C27_StableSnapshot == [][SnapshotStable]_vars

\* a callback of the fast phase is executing while a worker has set a field of
\* the RepoResult of another repository, not yet in the result map
C27_Witness ==
    /\ pc = "fast_cb"
    /\ \E r \in repos :
           /\ fut[r].state = "running" /\ fut[r].at = "branch"
           /\ IsSet(fut[r].val.unstaged_changes)
           /\ real_name(r) \notin DOMAIN results

\* the repositories with a data-source call in progress: a worker is inside
\* process_repo_fast or process_repo_slow
InCall == {r \in repos : fut[r].state = "running"}

\* C28: lock never spans I/O.  In every reachable state the lock is free or
\* held by the main thread inside one of its two with blocks, where it makes no
\* data-source call, and never by a worker, the threads the data-source calls
\* are made in; whenever the main thread waits for a completion the lock is
\* free, calls in progress or not, so that a blocked call keeps no other
\* repository's result from being merged.
C28_LockNeverSpansIO ==
    /\ display_lock \in {"free", "main"}
    /\ display_lock = "main" <=> pc \in {"fast_locked", "slow_locked"}
    /\ pc \in {"fast_wait", "slow_wait"} => display_lock = "free"
    /\ \A r \in repos :
           (pc = "slow_wait" /\ fut[r].state = "done" /\ InCall \ {r} # {}) =>
               ENABLED YieldSlow(r)

\* the main thread holds the lock for the merge of one repository while a slow
\* call of another is in progress
C28_Witness ==
    /\ pc = "slow_locked"
    /\ display_lock = "main"
    /\ \E r \in InCall : r # cur /\ fut[r].at = "sync"

\* the call that never returns is a call of the slow phase
SlowStall == stalled[2] \in SlowCalls

\* the call that never returns is a call of the fast phase
FastStall == stalled[2] \in FastCalls

\* the repository whose call never returns
StalledRepo == stalled[1]

\* the RepoResult of the repository has none of its slow fields and none of
\* their errors, and the row update_display makes of it, with any glyph, shows
\* the glyph in the PR and sync cells and a name without a link
SlowCellsPending(r) ==
    real_name(r) \in DOMAIN results =>
        /\ \A f \in {"pr_info", "is_remote_updated", "sync_status", "repo_url"} :
               ~IsSet(results[real_name(r)][f])
        /\ DOMAIN results[real_name(r)].errors \cap {"pr", "remote", "repo_url"} = {}
        /\ \A k \in 1..Len(spinner_chars) :
               LET row == RenderRow(results[real_name(r)], spinner_chars[k])
               IN  /\ row[4] = Plain(spinner_chars[k])
                   /\ row[5] = Plain(spinner_chars[k])
                   /\ ~IsSet(row[1].link)

\* what never happens in a run with a call that never returns
StallSafe ==
    /\ SlowStall \/ FastStall => pc \notin {"returned", "done"}
    /\ SlowStall => SlowCellsPending(StalledRepo)
    /\ FastStall => \A r \in repos : fut[r].kind # "slow"

\* every other repository's slow result is merged and its callback is made
OthersServed ==
    SlowStall =>
        /\ \A r \in repos \ {StalledRepo} :
               /\ fut[r].kind = "slow" /\ fut[r].state = "yielded"
               /\ Merged(results, real_name(r), fut[r].val)
        /\ callbacks.slow = Cardinality(repos) - 1
        /\ pc = "slow_wait"

\* C29: stalled call.  With the default pool sizes, when one slow-phase call
\* of a repository A never returns and every other call returns, every other
\* repository's slow result is eventually merged and followed by its progress
\* callback, the PR, sync and link cells of A stay pending in every frame
\* (also when some of A's slow fields were computed before the call that
\* blocks) and process_all never returns; when a fast-phase call never
\* returns, no slow-phase task ever starts.
C29_StalledCall == []StallSafe /\ <>[]OthersServed

\* the sync call of a repository blocks after its pull request lookup has
\* returned; the other repositories are merged and shown
C29_Witness ==
    /\ stalled[2] = "sync"
    /\ fut[StalledRepo].state = "running" /\ fut[StalledRepo].at = "sync"
    /\ "pr_info" \in DOMAIN fut[StalledRepo].val
    /\ callbacks.slow = Cardinality(repos) - 1
    /\ frame.tag = "slow"
    /\ SlowCellsPending(StalledRepo)
    /\ NumRepos > 1

(***************************************************************************)
(* The data source in detail (git_utils.py): what the queries of GitRepo   *)
(* make of the git and gh commands they run.  A run of a command is ok     *)
(* with its stripped standard output, failed (a non-zero exit status:      *)
(* subprocess.CalledProcessError), or raised (subprocess.run raises        *)
(* another exception, e.g. OSError when the program or the directory is    *)
(* missing).                                                               *)
(***************************************************************************)
\* _run_git_command / _run_gh_command raise: only CalledProcessError is caught
_run_command_raises(run) == run.kind = "raised"

\* _run_git_command / _run_gh_command where they return: Optional[str]
_run_command(run) == IF run.kind = "ok" THEN Some(run.stdout) ELSE None

\* git status --porcelain: the lines of the output, each by its two status
\* characters line[0], line[1]
StatusRuns ==
    { [kind |-> "ok", stdout |-> <<>>],
      [kind |-> "ok", stdout |-> << <<" ", "M">>, <<"?", "?">>, <<"M", " ">> >>],
      [kind |-> "failed", stdout |-> <<>>],
      [kind |-> "raised", stdout |-> <<>>] }

\* the body of _get_unstaged_changes behind _run_git_command
unstaged_count(output) ==
    IF ~IsSet(output) THEN 0
    ELSE Cardinality({i \in 1..Len(output[1]) :
                         \/ output[1][i][2] \in {"M", "D", "A", "?"}
                         \/ output[1][i][1] = "?"})

\* git branch --show-current
BranchRuns ==
    { [kind |-> "ok", stdout |-> "main"],
      [kind |-> "ok", stdout |-> ""],
      [kind |-> "failed", stdout |-> ""],
      [kind |-> "raised", stdout |-> ""] }

\* the body of _get_current_branch behind _run_git_command
branch_name(output) ==
    IF IsSet(output) /\ output[1] # "" THEN output[1] ELSE "detached"

\* gh pr list --json number,url: the output is empty, JSON (a list of pull
\* requests) or text that is not JSON
PrRuns ==
    { [kind |-> "ok", stdout |-> [text |-> "json", prs |-> <<>>]],
      [kind |-> "ok", stdout |-> [text |-> "json",
                                  prs |-> <<[number |-> Some(12), url |-> Some("pr-url")]>>]],
      [kind |-> "ok", stdout |-> [text |-> "garbage", prs |-> <<>>]],
      [kind |-> "failed", stdout |-> [text |-> "empty", prs |-> <<>>]],
      [kind |-> "raised", stdout |-> [text |-> "empty", prs |-> <<>>]] }

NoPr == [exists |-> FALSE, number |-> None, url |-> None]

\* the body of _check_pr_exists behind _run_gh_command
pr_info_of(output) ==
    IF IsSet(output) /\ output[1].text # "empty"
    THEN IF output[1].text = "json" /\ Len(output[1].prs) > 0
         THEN [exists |-> TRUE, number |-> output[1].prs[1].number,
               url |-> output[1].prs[1].url]
         ELSE NoPr
    ELSE NoPr

\* gh repo view --json url: url is the string under "url", None without one
UrlRuns ==
    { [kind |-> "ok", stdout |-> [text |-> "json", url |-> Some("repo-url")]],
      [kind |-> "ok", stdout |-> [text |-> "json", url |-> None]],
      [kind |-> "ok", stdout |-> [text |-> "garbage", url |-> None]],
      [kind |-> "failed", stdout |-> [text |-> "empty", url |-> None]],
      [kind |-> "raised", stdout |-> [text |-> "empty", url |-> None]] }

\* the body of _get_repo_url behind _run_gh_command
repo_url_of(output) ==
    IF IsSet(output) /\ output[1].text = "json" THEN output[1].url ELSE None

\* what git rev-list --count can answer: no output (the command failed), a
\* number, or text that is not a number
CountOutputs ==
    {None, Some([digits |-> FALSE, n |-> 0])}
    \cup {Some([digits |-> TRUE, n |-> k]) : k \in 0..MaxCount}

\* what git rev-parse can answer: no output (the command failed: no such
\* branch), an empty output, or a commit
CommitOutputs == {None, Some(""), Some("c1"), Some("c2")}

\* not output, for an Optional[str]
Blank(output) == ~IsSet(output) \/ output[1] = ""

\* int(output) if output and output.isdigit() else 0
count_of(output) ==
    IF IsSet(output) /\ output[1].digits THEN output[1].n ELSE 0

\* _get_sync_status with every count taken as 1
sync_status_of_counts_as_one(local_commit, remote_commit, ahead_output, behind_output) ==
    IF Blank(local_commit) THEN [status |-> "unknown", ahead |-> 0, behind |-> 0]
    ELSE IF Blank(remote_commit) THEN [status |-> "ahead", ahead |-> 1, behind |-> 0]
    ELSE IF local_commit = remote_commit
         THEN [status |-> "synced", ahead |-> 0, behind |-> 0]
    ELSE [status |-> "diverged", ahead |-> 1, behind |-> 1]

\* _get_sync_status behind its _run_git_command calls
sync_status_of(local_commit, remote_commit, ahead_output, behind_output) ==
    IF Blank(local_commit) THEN [status |-> "unknown", ahead |-> 0, behind |-> 0]
    ELSE IF Blank(remote_commit) THEN [status |-> "ahead", ahead |-> 1, behind |-> 0]
    ELSE IF local_commit = remote_commit
         THEN [status |-> "synced", ahead |-> 0, behind |-> 0]
    ELSE LET ahead_count == count_of(ahead_output)
             behind_count == count_of(behind_output)
         IN  IF ahead_count > 0 /\ behind_count > 0
             THEN [status |-> "diverged", ahead |-> ahead_count,
                   behind |-> behind_count]
             ELSE IF ahead_count > 0
                  THEN [status |-> "ahead", ahead |-> ahead_count, behind |-> 0]
             ELSE IF behind_count > 0
                  THEN [status |-> "behind", ahead |-> 0, behind |-> behind_count]
             ELSE [status |-> "synced", ahead |-> 0, behind |-> 0]

\* the local branch and origin's are at the same commit: the counts are not asked
InSyncRun ==
    [kind |-> "ok", local |-> Some("c1"), remote |-> Some("c1"), ahead |-> None,
     behind |-> None]

\* origin's branch has one commit more than the local one
BehindRun ==
    [kind |-> "ok", local |-> Some("c1"), remote |-> Some("c2"),
     ahead |-> Some([digits |-> TRUE, n |-> 0]),
     behind |-> Some([digits |-> TRUE, n |-> 1])]

\* the git commands of one _get_sync_status, as process_repo_slow meets them:
\* one of them raises, or they answer
SyncRuns ==
    { [kind |-> "raised", local |-> None, remote |-> None, ahead |-> None,
       behind |-> None],
      InSyncRun, BehindRun }
    \cup { [kind |-> "ok", local |-> l, remote |-> r, ahead |-> a, behind |-> None] :
             l \in {None, Some("c1")}, r \in {None, Some("c2")},
             a \in {None, Some([digits |-> TRUE, n |-> 1])} }

\* process_repo_fast on the runs of its two commands
process_repo_fast(name, dname, status, branch) ==
    LET r0 == RepoResult(name, dname)
        r1 == IF _run_command_raises(status) THEN SetError(r0, "unstaged")
              ELSE [r0 EXCEPT !.unstaged_changes =
                                  Some(unstaged_count(_run_command(status)))]
    IN  IF _run_command_raises(branch) THEN SetError(r1, "branch")
        ELSE [r1 EXCEPT !.current_branch = Some(branch_name(_run_command(branch)))]

\* process_repo_slow on the runs of its commands: updates.  remote are the git
\* commands of the _get_sync_status inside repo._check_remote_updated(), sync
\* those of the repo._get_sync_status() that follows it
process_repo_slow(pr, remote, sync, url) ==
    LET u0 == EmptyDict
        u1 == IF _run_command_raises(pr) THEN Put(u0, "pr_error", ErrMsg)
              ELSE Put(u0, "pr_info", Some(pr_info_of(_run_command(pr))))
        legacy == sync_status_of(remote.local, remote.remote, remote.ahead,
                                 remote.behind)
        status == sync_status_of(sync.local, sync.remote, sync.ahead, sync.behind)
        u2 == IF _run_command_raises(remote) THEN Put(u1, "remote_error", ErrMsg)
              ELSE IF _run_command_raises(sync)
                   THEN Put(Put(u1, "is_remote_updated",
                                Some(legacy.status = "synced")),
                            "remote_error", ErrMsg)
              ELSE Put(Put(u1, "is_remote_updated", Some(legacy.status = "synced")),
                       "sync_status", Some(status))
    IN  IF _run_command_raises(url) THEN Put(u2, "repo_url_error", ErrMsg)
        ELSE Put(u2, "repo_url", repo_url_of(_run_command(url)))

InitSource ==
    /\ repos = {}
    /\ max_workers = DefaultMaxWorkers
    /\ display_callback = "record"
    /\ stalled = NoStall
    /\ faults_left = 0
    /\ git_files = EmptyDict
    /\ cache_data = EmptyDict
    /\ cache_file = EmptyDict
    /\ cache_file_state = "missing"
    /\ cached_data = EmptyDict
    /\ pc = "source"
    /\ cur = 0
    /\ fut = EmptyDict
    /\ results = EmptyDict
    /\ completed_count = 0
    /\ display_lock = "free"
    /\ calls = EmptyDict
    /\ cache_writes = EmptyDict
    /\ callbacks = [fast |-> 0, slow |-> 0, final |-> 0]
    /\ frame = NoFrame
    /\ display = NewDisplay
    /\ term = NoOutput
    /\ ret = NoRet

\* one repository goes through process_repo_fast, process_repo_slow and
\* update_result
ProcessRepo(status, branch, pr, remote, sync, url) ==
    /\ pc = "source"
    /\ pc' = "answered"
    /\ LET fast == process_repo_fast(1, 1, status, branch)
           rs == update_result(Put(EmptyDict, fast.name, fast), fast.name,
                               process_repo_slow(pr, remote, sync, url))
       IN  ret' = [op |-> "process_repo",
                   runs |-> [status |-> status, branch |-> branch, pr |-> pr,
                             remote |-> remote, sync |-> sync, url |-> url],
                   result |-> rs[fast.name]]
    /\ UNCHANGED <<confVars, faults_left, git_files, cache_data, cache_file,
                   cache_file_state, cache_writes, cached_data, cur, fut, results,
                   completed_count, display_lock, calls, callbacks, frame,
                   display, term>>

\* repo._get_sync_status() on the answers of its git commands
GetSyncStatus(local_commit, remote_commit, ahead_output, behind_output) ==
    /\ pc = "source"
    /\ pc' = "answered"
    /\ ret' = [op |-> "_get_sync_status",
               local_commit |-> local_commit, remote_commit |-> remote_commit,
               ahead_output |-> ahead_output, behind_output |-> behind_output,
               value |-> sync_status_of(local_commit, remote_commit,
                                        ahead_output, behind_output)]
    /\ UNCHANGED <<confVars, faults_left, git_files, cache_data, cache_file,
                   cache_file_state, cache_writes, cached_data, cur, fut, results,
                   completed_count, display_lock, calls, callbacks, frame,
                   display, term>>

NextSource ==
    \/ /\ pc = "source"
       /\ \E status \in StatusRuns, branch \in BranchRuns, pr \in PrRuns,
             remote \in SyncRuns, sync \in SyncRuns, url \in UrlRuns :
              ProcessRepo(status, branch, pr, remote, sync, url)
    \/ /\ pc = "source"
       /\ \E l \in CommitOutputs, r \in CommitOutputs,
             a \in CountOutputs, b \in CountOutputs : GetSyncStatus(l, r, a, b)

SpecSource == InitSource /\ [][NextSource]_vars

\* the run of a git command failed
RunFailed(run) == run.kind = "failed"

\* the run of a gh command failed or returned what cannot be parsed
GhFailed(run) ==
    run.kind = "failed" \/ (run.kind = "ok" /\ run.stdout.text = "garbage")

\* a git command of _get_sync_status failed, other than the rev-parse of the
\* remote branch (whose failure means that there is no such branch)
SyncFailed(sync) ==
    /\ sync.kind = "ok"
    /\ \/ Blank(sync.local)
       \/ /\ ~Blank(sync.remote)
          /\ sync.local # sync.remote
          /\ (~IsSet(sync.ahead) \/ ~IsSet(sync.behind))

\* a field is left unset and its tag recorded
ErroredField(res, field, tag) == ~IsSet(res[field]) /\ tag \in DOMAIN res.errors

\* C19: external call failure becomes a per-field error.  Whenever a git or gh
\* command run for a field fails (exits with failure or returns unparseable
\* data), the field is left unset in the RepoResult and errors records its
\* tag: the failure is never turned into a value.
C19_FailureBecomesFieldError ==
    ret.op = "process_repo" =>
        /\ RunFailed(ret.runs.status) =>
               ErroredField(ret.result, "unstaged_changes", "unstaged")
        /\ RunFailed(ret.runs.branch) =>
               ErroredField(ret.result, "current_branch", "branch")
        /\ GhFailed(ret.runs.pr) => ErroredField(ret.result, "pr_info", "pr")
        /\ ret.runs.remote.kind = "ok" /\ SyncFailed(ret.runs.sync) =>
               ErroredField(ret.result, "sync_status", "remote")
        /\ GhFailed(ret.runs.url) => ErroredField(ret.result, "repo_url", "repo_url")

\* the answers of _get_sync_status as the claim reads them: the local commit
\* is present
HasLocal == ret.op = "_get_sync_status" /\ ~Blank(ret.local_commit)

\* C20: sync status derivation.  With a local commit: equal commits give synced
\* with ahead = behind = 0; an absent remote branch gives ahead with ahead = 1,
\* behind = 0; otherwise the status is diverged iff both counts are nonzero,
\* ahead iff only ahead is, behind iff only behind is, synced iff both are zero,
\* with the counts reported.  In every returned value ahead implies behind = 0,
\* behind implies ahead = 0 and synced implies both are 0.
C20_SyncStatusDerivation ==
    ret.op = "_get_sync_status" =>
        LET v == ret.value
            a == count_of(ret.ahead_output)
            b == count_of(ret.behind_output)
        IN  /\ HasLocal /\ Blank(ret.remote_commit) =>
                   v = [status |-> "ahead", ahead |-> 1, behind |-> 0]
            /\ HasLocal /\ ~Blank(ret.remote_commit)
                  /\ ret.local_commit = ret.remote_commit =>
                   v = [status |-> "synced", ahead |-> 0, behind |-> 0]
            /\ HasLocal /\ ~Blank(ret.remote_commit)
                  /\ ret.local_commit # ret.remote_commit =>
                   /\ v.status = "diverged" <=> (a > 0 /\ b > 0)
                   /\ v.status = "ahead" <=> (a > 0 /\ b = 0)
                   /\ v.status = "behind" <=> (a = 0 /\ b > 0)
                   /\ v.status = "synced" <=> (a = 0 /\ b = 0)
                   /\ v.ahead = a
                   /\ v.behind = b
            /\ v.status = "ahead" => v.behind = 0
            /\ v.status = "behind" => v.ahead = 0
            /\ v.status = "synced" => (v.ahead = 0 /\ v.behind = 0)

\* the commits differ and both counts are above one: diverged
C20_Witness ==
    /\ HasLocal
    /\ ~Blank(ret.remote_commit)
    /\ ret.local_commit # ret.remote_commit
    /\ ret.value = [status |-> "diverged", ahead |-> 2, behind |-> 2]

\* C32: legacy boolean agrees with sync status.  In every RepoResult in which
\* the slow phase has set both is_remote_updated and sync_status,
\* is_remote_updated is true iff sync_status.status is synced, also when the
\* state of the remote or local branch changes while the slow task is running.
C32_LegacyAgreesWithSyncStatus ==
    ret.op = "process_repo" =>
        LET v == ret.result
        IN  IsSet(v.is_remote_updated) /\ IsSet(v.sync_status) =>
                (v.is_remote_updated[1] <=> v.sync_status[1].status = "synced")

(***************************************************************************)
(* The cells of one row: update_display called once on a result map of one *)
(* RepoResult, over the values its slow fields can have.                   *)
(***************************************************************************)
\* what _check_pr_exists can return: gh's number and url, each possibly null
PrInfos ==
    [exists : BOOLEAN, number : {None, Some(12)}, url : {None, Some("pr-url")}]

\* the statuses _get_sync_status returns
SyncStatuses == {"synced", "ahead", "behind", "diverged", "unknown"}

\* what _get_sync_status can return for a status
SyncInfo(status) ==
    [status |-> status,
     ahead |-> IF status \in {"ahead", "diverged"} THEN 1 ELSE 0,
     behind |-> IF status \in {"behind", "diverged"} THEN 2 ELSE 0]

\* the errors update_result can have recorded for the slow fields shown
SlowErrors == {Restrict([pr |-> ErrMsg, remote |-> ErrMsg], S) : S \in SUBSET {"pr", "remote"}}

\* a RepoResult after its fast phase, with any slow fields
CellResults ==
    {[FastResult EXCEPT !.name = 1, !.pr_info = p, !.sync_status = s,
                        !.is_remote_updated = b, !.repo_url = u, !.errors = e] :
        p \in {None} \cup {Some(x) : x \in PrInfos},
        s \in {None} \cup {Some(SyncInfo(x)) : x \in SyncStatuses},
        b \in {None, Some(TRUE), Some(FALSE)},
        u \in {None, Some("repo-url")},
        e \in SlowErrors}

InitCells ==
    /\ repos = {}
    /\ max_workers = DefaultMaxWorkers
    /\ display_callback = "update_display"
    /\ stalled = NoStall
    /\ faults_left = 0
    /\ git_files = EmptyDict
    /\ cache_data = EmptyDict
    /\ cache_file = EmptyDict
    /\ cache_file_state = "missing"
    /\ cached_data = EmptyDict
    /\ pc = "cells"
    /\ cur = 0
    /\ fut = EmptyDict
    /\ \E v \in CellResults : results = Put(EmptyDict, v.name, v)
    /\ completed_count = 0
    /\ display_lock = "free"
    /\ calls = EmptyDict
    /\ cache_writes = EmptyDict
    /\ callbacks = [fast |-> 0, slow |-> 0, final |-> 0]
    /\ frame = NoFrame
    /\ display = NewDisplay
    /\ term = NoOutput
    /\ ret = NoRet

\* progressive_display.update_display(results, "slow") on the result map
RenderResult ==
    /\ pc = "cells"
    /\ LET u == update_display(display, Values(results), "slow")
       IN  /\ display' = u.display
           /\ term' = Emit(term, Values(results), u.out, FALSE)
    /\ pc' = "rendered"
    /\ UNCHANGED <<confVars, faults_left, cacheVars, cached_data, cur, fut, results,
                   completed_count, display_lock, calls, callbacks, frame>>

\* a read of result.has_pr
HasPr ==
    /\ pc \in {"cells", "rendered"}
    /\ ret = NoRet
    /\ ret' = [op |-> "has_pr", value |-> has_pr(results[1])]
    /\ UNCHANGED <<confVars, faults_left, git_files, cache_data, cache_file,
                   cache_file_state, cache_writes, cached_data, procVars, calls>>

NextCells == RenderResult \/ HasPr

SpecCells == InitCells /\ [][NextCells]_vars

\* the cell of column c in the only row of the frame
OnlyCell(c) == PrintedRows(term.out)[1].cells[c]

\* C21: PR cell.  For every result whose pr_info is set the PR cell is "No"
\* when exists is false, a hyperlink to the url labelled with the number when
\* exists is true and number and url are both there, and "Yes" when exists is
\* true and number or url is missing; has_pr is true iff pr_info is set and
\* its exists is true.
C21_PrCell ==
    /\ pc = "rendered" /\ IsSet(results[1].pr_info) =>
           LET p == results[1].pr_info[1]
           IN  OnlyCell(4) =
                   IF ~p.exists THEN Plain("No")
                   ELSE IF IsSet(p.number) /\ IsSet(p.url)
                        THEN [text |-> ToString(p.number[1]), link |-> p.url,
                              color |-> "none"]
                        ELSE Plain("Yes")
    /\ ret.op = "has_pr" =>
           (ret.value <=> (IsSet(results[1].pr_info) /\ results[1].pr_info[1].exists))

\* a pull request with a number and no url is rendered as "Yes", and has_pr
\* was read as true
C21_Witness ==
    /\ pc = "rendered"
    /\ IsSet(results[1].pr_info)
    /\ results[1].pr_info[1] = [exists |-> TRUE, number |-> Some(12), url |-> None]
    /\ OnlyCell(4) = Plain("Yes")
    /\ ret.op = "has_pr" /\ ret.value

\* what the sync cell shows for a status
StatusGlyph(status) ==
    CASE status = "synced" -> Colored("green", "+")
      [] status = "ahead" -> Colored("yellow", "^")
      [] status = "behind" -> Colored("red", "v")
      [] status = "diverged" -> Colored("red", "%")
      [] OTHER -> Colored("gray", "?")

\* C22: sync cell precedence.  When sync_status is set the sync cell is the
\* glyph of sync_status.status (synced, ahead, behind, diverged; the gray
\* question mark for any other status) whatever is_remote_updated is; when
\* sync_status is unset and is_remote_updated is set, the cell is the check
\* mark if it is true and the cross if it is false.
C22_SyncCellPrecedence ==
    pc = "rendered" =>
        LET v == results[1]
        IN  /\ IsSet(v.sync_status) =>
                   OnlyCell(5) = StatusGlyph(v.sync_status[1].status)
            /\ ~IsSet(v.sync_status) /\ IsSet(v.is_remote_updated) =>
                   OnlyCell(5) = IF v.is_remote_updated[1]
                                 THEN Colored("green", "+")
                                 ELSE Colored("red", "x")

\* the sync status says behind while the legacy boolean says up to date: the
\* cell shows the down arrow
C22_Witness ==
    /\ pc = "rendered"
    /\ results[1].sync_status = Some(SyncInfo("behind"))
    /\ results[1].is_remote_updated = Some(TRUE)
    /\ OnlyCell(5) = Colored("red", "v")


(***************************************************************************)
(* The order of the rows: the fast tasks of the repositories of a          *)
(* directory with an alias file complete in any order, then the slow tasks *)
(* do, and main draws the final frame.  self.results is a dict: values()   *)
(* iterates in the order in which the keys were inserted, which ret.keys   *)
(* keeps.  No call raises.                                                 *)
(***************************************************************************)
\* the alias an alias file can give to a folder
AliasNames == {2}

\* self.aliases after load_aliases: an alias for some of the folders
AliasFiles(R) == UNION {[S -> AliasNames] : S \in SUBSET R}

\* AliasParser.get_display_name
get_display_name(aliases, folder_name, use_real_name) ==
    IF use_real_name \/ folder_name \notin DOMAIN aliases THEN folder_name
    ELSE aliases[folder_name]

\* what process_repo_fast(repo) returns when its calls return
FastValue(r, aliases) ==
    [RepoResult(real_name(r), get_display_name(aliases, r, FALSE)) EXCEPT
        !.unstaged_changes = Some(_get_unstaged_changes(r)),
        !.current_branch = Some(_get_current_branch(r))]

\* what process_repo_slow(repo) returns when its calls return
SlowValue(r) ==
    Put(Put(Put(Put(EmptyDict, "pr_info", Some(_check_pr_exists(r))),
                "is_remote_updated", Some(_check_remote_updated(r))),
            "sync_status", Some(_get_sync_status(r))),
        "repo_url", _get_repo_url(r))

\* results.values() of a dict with these keys, in insertion order
OrderedValues(rs, keys) == [i \in 1..Len(keys) |-> rs[keys[i]]]

InitOrder ==
    /\ repos = 1..OrderRepos
    /\ max_workers = DefaultMaxWorkers
    /\ display_callback = "update_display"
    /\ stalled = NoStall
    /\ faults_left = 0
    /\ git_files = [r \in repos |-> RunFiles]
    /\ cache_data = EmptyDict
    /\ cache_file = EmptyDict
    /\ cache_file_state = "object"
    /\ cached_data = [r \in repos |-> EmptyDict]
    /\ pc = "fast_wait"
    /\ cur = 0
    /\ \E aliases \in AliasFiles(repos) :
          fut = [r \in repos |->
                   [state |-> "done", kind |-> "fast", at |-> "done",
                    val |-> FastValue(r, aliases)]]
    /\ results = EmptyDict
    /\ completed_count = 0
    /\ display_lock = "free"
    /\ calls = [r \in repos |-> [c \in AllCalls |-> "none"]]
    /\ cache_writes = [r \in repos |-> 0]
    /\ callbacks = [fast |-> 0, slow |-> 0, final |-> 0]
    /\ frame = NoFrame
    /\ display = NewDisplay
    /\ term = NoOutput
    /\ ret = [op |-> "none", keys |-> <<>>]

\* the body of the loop over as_completed(future_to_repo) for the future of r:
\* self.results[result.name] = result, then display_callback(self.results, "fast")
CollectFast(r) ==
    /\ pc = "fast_wait"
    /\ fut[r].kind = "fast" /\ fut[r].state = "done"
    /\ results' = Put(results, fut[r].val.name, fut[r].val)
    /\ ret' = [op |-> "insert", keys |-> Append(ret.keys, fut[r].val.name)]
    /\ completed_count' = completed_count + 1
    /\ fut' = [fut EXCEPT ![r].state = "yielded"]
    /\ cur' = r
    /\ callbacks' = [callbacks EXCEPT !.fast = @ + 1]
    /\ frame' = [tag |-> "fast", trigger |-> r, rows |-> DOMAIN results']
    /\ LET vals == OrderedValues(results', ret'.keys)
           u == update_display(display, vals, "fast")
       IN  /\ display' = u.display
           /\ term' = Emit(term, vals, u.out, FALSE)
    /\ UNCHANGED <<confVars, faults_left, git_files, cache_data, cache_file, cache_file_state,
                   cached_data, pc, display_lock, calls, cache_writes>>

\* _process_slow_operations submits process_repo_slow for every repository;
\* the tasks run to their end
SubmitSlowTasks ==
    /\ pc = "fast_wait"
    /\ \A r \in repos : fut[r].state = "yielded"
    /\ fut' = [r \in repos |->
                  [state |-> "done", kind |-> "slow", at |-> "done",
                   val |-> SlowValue(r)]]
    /\ pc' = "slow_wait"
    /\ UNCHANGED <<confVars, faults_left, cacheVars, cached_data, cur, results,
                   completed_count, display_lock, calls, callbacks, frame, display,
                   term>>

\* the body of the loop over the slow futures for the future of r:
\* self.update_result(repo_name, updates), then display_callback(self.results, "slow")
CollectSlow(r) ==
    /\ pc = "slow_wait"
    /\ fut[r].kind = "slow" /\ fut[r].state = "done"
    /\ results' = update_result(results, real_name(r), fut[r].val)
    /\ fut' = [fut EXCEPT ![r].state = "yielded"]
    /\ cur' = r
    /\ callbacks' = [callbacks EXCEPT !.slow = @ + 1]
    /\ frame' = [tag |-> "slow", trigger |-> r, rows |-> DOMAIN results']
    /\ LET vals == OrderedValues(results', ret.keys)
           u == update_display(display, vals, "slow")
       IN  /\ display' = u.display
           /\ term' = Emit(term, vals, u.out, FALSE)
    /\ UNCHANGED <<confVars, faults_left, cacheVars, cached_data, pc,
                   completed_count, display_lock, calls>>

\* process_all returns and main calls display.final_display(results)
FinalFrame ==
    /\ pc = "slow_wait"
    /\ \A r \in repos : fut[r].kind = "slow" /\ fut[r].state = "yielded"
    /\ pc' = "done"
    /\ callbacks' = [callbacks EXCEPT !.final = @ + 1]
    /\ LET vals == OrderedValues(results, ret.keys)
           u == final_display(display, vals)
       IN  /\ display' = u.display
           /\ term' = Emit(term, vals, u.out, TRUE)
    /\ UNCHANGED <<confVars, faults_left, cacheVars, cached_data, cur, fut, results,
                   completed_count, display_lock, calls, frame>>

NextOrder ==
    \/ \E r \in repos : CollectFast(r)
    \/ SubmitSlowTasks
    \/ \E r \in repos : CollectSlow(r)
    \/ FinalFrame

SpecOrder == InitOrder /\ [][NextOrder]_vars

\* the orders in which the tasks of the names can complete
Orders(names) ==
    {o \in [1..Cardinality(names) -> names] :
        \A i, j \in DOMAIN o : i # j => o[i] # o[j]}

\* the names on the terminal lines 3, 4, ... of the final frame of a run in
\* which the results were inserted in the order o
FinalRows(o) ==
    LET rows == PrintedRows(final_display(NewDisplay, OrderedValues(results, o)).out)
    IN  [i \in 1..Len(rows) |-> rows[i].name]

\* C33: row order is independent of completion order.  Two runs over the same
\* repositories with the same data-source answers and different task completion
\* orders end in final frames with the same repository on each terminal line,
\* also when two repositories have the same display name.
C33_RowOrderIndependent ==
    (pc = "done" /\ term.final) =>
        \A o \in Orders(DOMAIN results) :
            FinalRows(o) = [i \in 1..Len(PrintedRows(term.out)) |->
                              PrintedRows(term.out)[i].name]

(***************************************************************************)
(* The status run of the two repositories of the scenario in which any     *)
(* call of the data source can raise, with the display of main attached.   *)
(***************************************************************************)
InitSettle == InitRun(1..2, {DefaultMaxWorkers}, SettleFaults, {EmptyDict},
                     "update_display")

SpecSettle == InitSettle /\ [][Next]_vars

\* the characters of the spinner
Glyphs == {spinner_chars[i] : i \in 1..Len(spinner_chars)}

\* unstaged, branch, PR and sync of a result are set or have their error tag
Settled(res) ==
    /\ IsSet(res.unstaged_changes) \/ "unstaged" \in DOMAIN res.errors
    /\ IsSet(res.current_branch) \/ "branch" \in DOMAIN res.errors
    /\ IsSet(res.pr_info) \/ "pr" \in DOMAIN res.errors
    /\ IsSet(res.sync_status) \/ "remote" \in DOMAIN res.errors

\* the frame on the terminal has a row for every repository and no spinner
\* character in the unstaged, branch, PR and sync cells
NoPendingCell ==
    LET rows == PrintedRows(term.out)
    IN  /\ {rows[i].name : i \in 1..Len(rows)} = AllNames
        /\ \A i \in 1..Len(rows), c \in 2..5 : rows[i].cells[c].text \notin Glyphs

\* C34: no pending cell in the final frame.  When process_all has returned,
\* every repository given to the processor has a RepoResult in which each of
\* unstaged, branch, PR and sync is set or has its error tag recorded, so the
\* frame drawn by final_display has no placeholder glyph, whichever calls of
\* the data source succeed and fail.
C34_NoPendingInFinalFrame ==
    /\ pc \in {"returned", "done"} =>
           \A r \in repos :
               /\ real_name(r) \in DOMAIN results
               /\ Settled(results[real_name(r)])
    /\ term.final => NoPendingCell

\* the final frame of a run in which every call for repository 1 raised that
\* could (the sync status is not asked for once the remote check has raised)
\* and the calls for repository 2 returned: four cells of Error in one row, none
\* in the other
C34_Witness ==
    /\ term.final
    /\ DOMAIN results[real_name(1)].errors
          = {"unstaged", "branch", "pr", "remote", "repo_url"}
    /\ results[real_name(2)].errors = EmptyDict
    /\ LET rows == PrintedRows(term.out)
       IN  /\ \A c \in 2..5 : rows[1].cells[c].text = "Error"
           /\ \A c \in 2..5 : rows[2].cells[c].text # "Error"

====
